---- MODULE Spec2Model ----
(***************************************************************************)
(* Model of the cv-parser frontend: the multi-file upload pipeline         *)
(* (FileUpload.tsx), the tag-set search builder (MultiSelectSearch.tsx)    *)
(* and the search / select / list-sync page (SearchPage.tsx), under the    *)
(* authentication provider (AuthContext.tsx).                              *)
(*                                                                         *)
(* JavaScript strings that the code inspects (file names, search terms,    *)
(* list names) are sequences of one-character strings, so that split,      *)
(* trim and toLowerCase are computed.  Every other string is a sequence of *)
(* chunks, a template literal is the concatenation of its parts, and the   *)
(* empty string is <<>>, the only falsy one.                               *)
(***************************************************************************)
EXTENDS Integers, Sequences, FiniteSets, TLC

VARIABLES
  \* ---- FileUpload.tsx ----
  files,          \* useState<UploadedFile[]>: sequence of item records
  xhrs,           \* the XMLHttpRequests created by uploadToBackend, by item id
  nextId,         \* source of fresh item ids (Date.now() + Math.random())
  submitted,      \* history: every file handed to handleFiles, in order
  removedAny,     \* history: removeFile has removed an item
  \* ---- MultiSelectSearch.tsx ----
  childTerms,     \* useState<string[]> searchTerms of the builder
  currentInput,   \* useState('') text of the input field
  nAdded,         \* history: adds that appended a term
  nRemoved,       \* history: removes that removed a term
  \* ---- SearchPage.tsx ----
  searchTerms, searchMode, results, selectedResults, isLoading, error,
  hasSearched, lastSearchTerms,
  hubspotLists, isLoadingLists, listsError,
  showAddModal, addMode, newListName, selectedListId, isAddingToList,
  addSuccess,
  pending,        \* the fetches awaiting their response, in the order they
                  \* were issued, each with what its suspended caller captured
  \* ---- AuthContext.tsx ----
  isAuthenticated, \* useState(false)
  user,            \* useState<{username} | null>(null)
  storedAuth,      \* localStorage entry "auth": its text, or Null
  mountPending,    \* the provider has rendered, its mount effect has not run
  loginReturn      \* what the last call of login returned, <<>> before any

uploadVars == <<files, xhrs, nextId, submitted, removedAny>>
termVars   == <<childTerms, currentInput, nAdded, nRemoved>>
pageVars   == <<searchTerms, searchMode, results, selectedResults, isLoading,
                error, hasSearched, lastSearchTerms, hubspotLists,
                isLoadingLists, listsError, showAddModal, addMode, newListName,
                selectedListId, isAddingToList, addSuccess, pending>>
authVars   == <<isAuthenticated, user, storedAuth, mountPending, loginReturn>>
vars == <<uploadVars, termVars, pageVars, authVars>>

(***************************************************************************)
(* Bounds                                                                  *)
(***************************************************************************)
MaxSubmitted == 2      \* files handed to handleFiles over a run
MaxBatch == 2          \* files in one batch
MaxOrdered == 3        \* files handed to handleFiles over a run of SpecOrder
MaxAdds == 3           \* accepted adds counted by the term-set history
MaxInFlight == 3       \* fetches awaiting a response at one time

(***************************************************************************)
(* String helpers                                                          *)
(***************************************************************************)
UpperLetters == <<"A","B","C","D","E","F","G","H","I","J","K","L","M",
                  "N","O","P","Q","R","S","T","U","V","W","X","Y","Z">>
LowerLetters == <<"a","b","c","d","e","f","g","h","i","j","k","l","m",
                  "n","o","p","q","r","s","t","u","v","w","x","y","z">>

toLowerCaseChar(c) ==
  IF \E i \in 1..Len(UpperLetters) : UpperLetters[i] = c
    THEN LowerLetters[CHOOSE i \in 1..Len(UpperLetters) : UpperLetters[i] = c]
    ELSE c

\* String.prototype.toLowerCase
toLowerCase(s) == [i \in 1..Len(s) |-> toLowerCaseChar(s[i])]

\* String.prototype.trim (the inputs use the blank as their only white space)
RECURSIVE trimStart(_)
trimStart(s) ==
  IF s # <<>> /\ Head(s) = " " THEN trimStart(Tail(s)) ELSE s

RECURSIVE trimEnd(_)
trimEnd(s) ==
  IF s # <<>> /\ s[Len(s)] = " " THEN trimEnd(SubSeq(s, 1, Len(s) - 1)) ELSE s

trim(s) == trimEnd(trimStart(s))

\* String.prototype.split('.'): always at least one piece
RECURSIVE split(_, _)
split(s, sep) ==
  IF \E i \in 1..Len(s) : s[i] = sep
    THEN LET i == CHOOSE k \in 1..Len(s) :
                    s[k] = sep /\ \A j \in 1..(k - 1) : s[j] # sep
         IN  <<SubSeq(s, 1, i - 1)>> \o split(SubSeq(s, i + 1, Len(s)), sep)
    ELSE <<s>>

\* Array.prototype.includes
includes(arr, v) == \E i \in 1..Len(arr) : arr[i] = v

\* a string literal
Str(c) == IF c = "" THEN <<>> ELSE <<c>>

(***************************************************************************)
(* FileUpload.tsx                                                          *)
(***************************************************************************)
acceptedTypes == << <<".","p","d","f">>, <<".","d","o","c">>,
                    <<".","d","o","c","x">> >>
maxFileSize == 10 * 1024 * 1024

\* validateFile: the last '.'-separated piece of the name, lower-cased and
\* prefixed with '.', must be an accepted type; the size must not exceed
\* maxFileSize.
validateFile(file) ==
  LET pieces == split(file.name, ".")
      fileExtension == <<".">> \o toLowerCase(pieces[Len(pieces)])
  IN  IF ~includes(acceptedTypes, fileExtension) THEN FALSE
      ELSE IF file.size > maxFileSize THEN FALSE
      ELSE TRUE

\* the files offered to the component
File(name, size) == [name |-> name, size |-> size]
CvDocx      == File(<<"a",".","D","o","c","x">>, maxFileSize)
BigPdf      == File(<<"b",".","p","d","f">>, 12 * 1024 * 1024)
TxtFile     == File(<<"a",".","t","x","t">>, 10)
UploadFiles == {CvDocx, BigPdf, TxtFile}

\* batches (FileList contents) of at most MaxBatch files
Batches == UNION {[1..n -> UploadFiles] : n \in 0..MaxBatch}

\* the XMLHttpRequest upload is reported in XhrTotal units
XhrTotal == 2

\* response bodies and JSON.parse
AnnDoc == [name |-> "Ann", email |-> "ann@x"]
BobDoc == [name |-> "Bob", email |-> "bob@x"]
ResponseTexts == {"ann.json", "bob.json", "<html>"}
JSONparses(text) == text \in {"ann.json", "bob.json"}
JSONparse(text) == IF text = "ann.json" THEN AnnDoc ELSE BobDoc

mapById_Upsert(prev, fileId, patch) ==
  IF \E i \in 1..Len(prev) : prev[i].id = fileId
    THEN [i \in 1..Len(prev) |->
            IF prev[i].id = fileId THEN patch @@ prev[i] ELSE prev[i]]
    ELSE Append(prev, patch @@ [id |-> fileId])

mapById_EveryItem(prev, fileId, patch) ==
  [i \in 1..Len(prev) |-> patch @@ prev[i]]

\* prev.map(f => f.id === fileId ? {...f, ...patch} : f)
mapById(prev, fileId, patch) ==
  [i \in 1..Len(prev) |->
     IF prev[i].id = fileId THEN patch @@ prev[i] ELSE prev[i]]

newFile_Queued(id, file) ==
  [id |-> id, file |-> file, status |-> "queued", progress |-> 0]

\* the item created by handleFiles for the k-th valid file of a batch
newFile(id, file) ==
  [id |-> id, file |-> file, status |-> "uploading", progress |-> 0]

\* uploadToBackend up to xhr.send: one request per new item
sendXhrs(newFiles) ==
  [id \in {newFiles[i].id : i \in 1..Len(newFiles)} |->
     LET f == CHOOSE i \in 1..Len(newFiles) : newFiles[i].id = id
     IN  [file |-> newFiles[f].file, state |-> "sent", loaded |-> 0]]

validFilesOf_NoValidation(fileList) == fileList

\* handleFiles line 110: Array.from(fileList).filter(validateFile)
validFilesOf(fileList) == SelectSeq(fileList, validateFile)

handleFiles_Prepends(fileList) ==
  /\ LET validFiles == validFilesOf(fileList)
         newFiles == [i \in 1..Len(validFiles) |->
                        newFile(nextId + i - 1, validFiles[i])]
     IN  /\ files' = newFiles \o files
         /\ xhrs' = sendXhrs(newFiles) @@ xhrs
         /\ nextId' = nextId + Len(validFiles)
  /\ submitted' = submitted \o fileList
  /\ UNCHANGED removedAny

\* handleFiles(fileList)
handleFiles(fileList) ==
  /\ LET validFiles == validFilesOf(fileList)
         newFiles == [i \in 1..Len(validFiles) |->
                        newFile(nextId + i - 1, validFiles[i])]
     IN  /\ files' = files \o newFiles
         /\ xhrs' = sendXhrs(newFiles) @@ xhrs
         /\ nextId' = nextId + Len(validFiles)
  /\ submitted' = submitted \o fileList
  /\ UNCHANGED removedAny

onProgress_Remaining(fileId, lengthComputable, loaded) ==
  /\ fileId \in DOMAIN xhrs
  /\ xhrs[fileId].state = "sent"
  /\ loaded \in xhrs[fileId].loaded..XhrTotal
  /\ xhrs' = [xhrs EXCEPT ![fileId].loaded = loaded]
  /\ IF lengthComputable
       THEN files' = mapById(files, fileId,
                             [progress |-> ((XhrTotal - loaded) * 100) \div XhrTotal])
       ELSE files' = files
  /\ UNCHANGED <<nextId, submitted, removedAny>>

\* xhr.upload 'progress' listener
onProgress(fileId, lengthComputable, loaded) ==
  /\ fileId \in DOMAIN xhrs
  /\ xhrs[fileId].state = "sent"
  /\ loaded \in xhrs[fileId].loaded..XhrTotal
  /\ xhrs' = [xhrs EXCEPT ![fileId].loaded = loaded]
  /\ IF lengthComputable
       THEN files' = mapById(files, fileId,
                             [progress |-> (loaded * 100) \div XhrTotal])
       ELSE files' = files
  /\ UNCHANGED <<nextId, submitted, removedAny>>

onLoadPatch_KeepProgress(status, responseText, statusText) ==
  IF status = 200
    THEN IF JSONparses(responseText)
           THEN [status |-> "success",
                 parsedData |-> JSONparse(responseText)]
           ELSE [status |-> "error",
                 errorMessage |-> Str("Failed to parse server response")]
    ELSE [status |-> "error",
          errorMessage |-> Str("Upload failed: ") \o statusText]

onLoadPatch_SameMessage(status, responseText, statusText) ==
  IF status = 200 /\ JSONparses(responseText)
    THEN [status |-> "success", progress |-> 100,
          parsedData |-> JSONparse(responseText)]
    ELSE [status |-> "error", errorMessage |-> Str("Upload failed")]

\* the replacement fields applied by the xhr 'load' listener
onLoadPatch(status, responseText, statusText) ==
  IF status = 200
    THEN IF JSONparses(responseText)
           THEN [status |-> "success", progress |-> 100,
                 parsedData |-> JSONparse(responseText)]
           ELSE [status |-> "error",
                 errorMessage |-> Str("Failed to parse server response")]
    ELSE [status |-> "error",
          errorMessage |-> Str("Upload failed: ") \o statusText]

\* xhr 'load' listener; the request body has been sent in full by then
onLoad(fileId, status, responseText, statusText) ==
  /\ fileId \in DOMAIN xhrs
  /\ xhrs[fileId].state = "sent"
  /\ xhrs' = [xhrs EXCEPT ![fileId].state = "done", ![fileId].loaded = XhrTotal]
  /\ files' = mapById(files, fileId, onLoadPatch(status, responseText, statusText))
  /\ UNCHANGED <<nextId, submitted, removedAny>>

onError_Retries(fileId) ==
  /\ fileId \in DOMAIN xhrs
  /\ xhrs[fileId].state = "sent"
  /\ xhrs' = [xhrs EXCEPT ![fileId].loaded = 0]
  /\ files' = mapById(files, fileId,
                      [status |-> "error",
                       errorMessage |-> Str("Network error occurred")])
  /\ UNCHANGED <<nextId, submitted, removedAny>>

\* xhr 'error' listener
onError(fileId) ==
  /\ fileId \in DOMAIN xhrs
  /\ xhrs[fileId].state = "sent"
  /\ xhrs' = [xhrs EXCEPT ![fileId].state = "done"]
  /\ files' = mapById(files, fileId,
                      [status |-> "error",
                       errorMessage |-> Str("Network error occurred")])
  /\ UNCHANGED <<nextId, submitted, removedAny>>

\* removeFile(id), offered by the X button of every listed item
removeFile(id) ==
  /\ \E i \in 1..Len(files) : files[i].id = id
  /\ files' = SelectSeq(files, LAMBDA f : f.id # id)
  /\ removedAny' = TRUE
  /\ UNCHANGED <<xhrs, nextId, submitted>>

\* what a response can carry: status and statusText (empty over HTTP/2)
HttpReply(status, statusText) == [status |-> status, statusText |-> statusText]
HttpReplies == {HttpReply(200, Str("OK")),
                HttpReply(500, Str("Internal Server Error"))}

InitUpload ==
  /\ files = <<>>
  /\ xhrs = <<>>
  /\ nextId = 1
  /\ submitted = <<>>
  /\ removedAny = FALSE

(***************************************************************************)
(* MultiSelectSearch.tsx and SearchPage.tsx: state groups                  *)
(***************************************************************************)
searchCore == <<results, selectedResults, isLoading, hasSearched,
                lastSearchTerms>>
listVars   == <<hubspotLists, isLoadingLists, listsError>>
modalVars  == <<showAddModal, addMode, newListName, selectedListId,
                isAddingToList, addSuccess>>
netVars    == <<pending>>

BACKEND_URL == Str("http://127.0.0.1:8000")

(***************************************************************************)
(* fetch: what a call can come back with                                   *)
(***************************************************************************)
\* the promise rejects: a network failure (TypeError, whose message depends
\* on the browser) or the AbortSignal.timeout expiry (TimeoutError)
Throw(name, message) == [kind |-> "throw", name |-> name, message |-> message]
\* the promise resolves with a Response; json tells whether response.json()
\* parses, body is the parsed value
Reply(ok, statusText, json, body) ==
  [kind |-> "reply", ok |-> ok, statusText |-> statusText, json |-> json,
   body |-> body]

Unreachable == Throw("TypeError", Str("Failed to fetch"))
UnreachableSafari == Throw("TypeError", Str("Load failed"))
TimedOut == Throw("TimeoutError", Str("signal timed out"))
NoBody == [none |-> TRUE]
NotJson(ok, statusText) == Reply(ok, statusText, FALSE, NoBody)

\* err.message.includes('fetch')
includesFetch(message) ==
  \E i \in 1..Len(message) :
    message[i] \in {"Failed to fetch",
                    "NetworkError when attempting to fetch resource."}

NoError == [name |-> "none", message |-> <<>>]
Error(message) == [name |-> "Error", message |-> message]
SyntaxError == [name |-> "SyntaxError", message |-> Str("Unexpected token")]

\* obj.field || fallback, for a field that holds a string or an array
orElse(obj, field, fallback) ==
  IF field \in DOMAIN obj /\ obj[field] # <<>> THEN obj[field] ELSE fallback

\* obj.field || [] for an array field: an array, even empty, is truthy
arrayOrEmpty(obj, field) ==
  IF field \in DOMAIN obj THEN obj[field] ELSE <<>>

\* the catch blocks: the message shown for a caught error
classify(err, unreachableMessage, timeoutMessage) ==
  IF err.name = "TypeError" /\ includesFetch(err.message)
    THEN unreachableMessage
  ELSE IF err.name = "TimeoutError" THEN timeoutMessage
  ELSE err.message

(***************************************************************************)
(* MultiSelectSearch.tsx                                                   *)
(***************************************************************************)
handleTermsChange_StoresQuery(terms) ==
  /\ searchTerms' = terms
  /\ lastSearchTerms' = terms
  /\ error' = IF error # <<>> /\ Len(terms) > 0 THEN <<>> ELSE error
  /\ UNCHANGED <<searchMode, results, selectedResults, isLoading, hasSearched,
                 listVars, modalVars, netVars>>

\* SearchPage.handleTermsChange(terms), the onTermsChange prop
handleTermsChange(terms) ==
  /\ searchTerms' = terms
  /\ error' = IF error # <<>> /\ Len(terms) > 0 THEN <<>> ELSE error
  /\ UNCHANGED <<searchMode, searchCore, listVars, modalVars, netVars>>

acceptsTerm_NoDuplicateCheck(terms, trimmedInput) == trimmedInput # <<>>

acceptsTerm_IgnoresCase(terms, trimmedInput) ==
  /\ trimmedInput # <<>>
  /\ ~\E i \in 1..Len(terms) : toLowerCase(terms[i]) = toLowerCase(trimmedInput)

\* addSearchTerm line 33: trimmedInput && !searchTerms.includes(trimmedInput)
acceptsTerm(terms, trimmedInput) ==
  trimmedInput # <<>> /\ ~includes(terms, trimmedInput)

\* addSearchTerm()
addSearchTerm ==
  LET trimmedInput == trim(currentInput)
  IN  IF acceptsTerm(childTerms, trimmedInput)
        THEN LET newTerms == Append(childTerms, trimmedInput)
             IN  /\ nAdded < MaxAdds
                 /\ childTerms' = newTerms
                 /\ currentInput' = <<>>
                 /\ handleTermsChange(newTerms)
                 /\ nAdded' = nAdded + 1
                 /\ UNCHANGED nRemoved
        ELSE UNCHANGED <<termVars, pageVars>>

\* removeSearchTerm(index), index counted from 0
removeSearchTerm(index) ==
  LET newTerms == IF index \in 0..(Len(childTerms) - 1)
                    THEN [i \in 1..(Len(childTerms) - 1) |->
                            IF i <= index THEN childTerms[i]
                                          ELSE childTerms[i + 1]]
                    ELSE childTerms
  IN  /\ childTerms' = newTerms
      /\ handleTermsChange(newTerms)
      /\ nRemoved' = nRemoved + (Len(childTerms) - Len(newTerms))
      /\ UNCHANGED <<currentInput, nAdded>>

clearAllTerms_ResetsSearch ==
  /\ childTerms' = <<>>
  /\ currentInput' = <<>>
  /\ searchTerms' = <<>>
  /\ results' = <<>>
  /\ selectedResults' = {}
  /\ lastSearchTerms' = <<>>
  /\ UNCHANGED <<nAdded, nRemoved, searchMode, error, isLoading, hasSearched,
                 listVars, modalVars, netVars>>

\* clearAllTerms()
clearAllTerms ==
  /\ childTerms' = <<>>
  /\ currentInput' = <<>>
  /\ handleTermsChange(<<>>)
  /\ UNCHANGED <<nAdded, nRemoved>>

\* handleKeyDown(e) for the keys it distinguishes
handleKeyDown(key) ==
  IF key = "Enter" THEN addSearchTerm
  ELSE IF key = "Backspace" /\ currentInput = <<>> /\ Len(childTerms) > 0
    THEN removeSearchTerm(Len(childTerms) - 1)
  ELSE UNCHANGED <<termVars, pageVars>>

\* onChange of the input: setCurrentInput(e.target.value)
setCurrentInput(value) ==
  /\ currentInput' = value
  /\ UNCHANGED <<childTerms, nAdded, nRemoved, pageVars>>

\* what the builder's handlers leave alone
termFrame == UNCHANGED <<uploadVars, authVars>>

(***************************************************************************)
(* SearchPage.tsx                                                          *)
(***************************************************************************)
withoutAt(seq, r) ==
  [i \in 1..(Len(seq) - 1) |-> IF i < r THEN seq[i] ELSE seq[i + 1]]

\* issuing a fetch: the call suspends until the response is delivered
fetch(request) == pending' = Append(pending, request)

\* the response to the r-th pending fetch is delivered to its caller
settle(r) == pending' = withoutAt(pending, r)

\* a response to r that makes the resumed call issue its next fetch
settleAndFetch(r, request) == pending' = Append(withoutAt(pending, r), request)

awaiting(r, op) == r \in 1..Len(pending) /\ pending[r].op = op

\* ---- loadHubSpotLists ----
listsRequest(after) == [op |-> "lists", after |-> after]

\* the error thrown inside loadHubSpotLists' try block, if any
listsThrown(o) ==
  IF o.kind = "throw" THEN [name |-> o.name, message |-> o.message]
  ELSE IF ~o.ok THEN Error(Str("Failed to load lists: ") \o o.statusText)
  ELSE IF ~o.json THEN SyntaxError
  ELSE NoError

listsErrorMessage(err) ==
  classify(err,
           Str("Cannot connect to backend server at ") \o BACKEND_URL
             \o Str(". Please ensure the backend server is running."),
           Str("Request timed out. Please check your connection and try again."))

\* loadHubSpotLists() up to its await, called from the Retry button
loadHubSpotLists ==
  /\ Len(pending) < MaxInFlight
  /\ isLoadingLists' = TRUE
  /\ listsError' = <<>>
  /\ fetch(listsRequest("none"))
  /\ UNCHANGED <<hubspotLists, searchTerms, searchMode, error, searchCore,
                 modalVars>>

\* loadHubSpotLists() after its await; when it was awaited by createNewList
\* that call's finally block runs next
listsResponse(r, o) ==
  /\ awaiting(r, "lists")
  /\ settle(r)
  /\ IF listsThrown(o) = NoError
       THEN /\ hubspotLists' = arrayOrEmpty(o.body, "lists")
            /\ UNCHANGED listsError
       ELSE /\ listsError' = listsErrorMessage(listsThrown(o))
            /\ UNCHANGED hubspotLists
  /\ isLoadingLists' = FALSE
  /\ isAddingToList' =
       IF pending[r].after = "createNewList" THEN FALSE ELSE isAddingToList
  /\ UNCHANGED <<searchTerms, searchMode, error, searchCore, showAddModal,
                 addMode, newListName, selectedListId, addSuccess>>

\* ---- handleSearch ----
searchRequest_ModeOr(terms, mode) ==
  [op |-> "search", keywords |-> terms, mode |-> "or", superseded |-> FALSE]

\* superseded is history: a later handleSearch has issued its own request
searchRequest(terms, mode) ==
  [op |-> "search", keywords |-> terms, mode |-> mode, superseded |-> FALSE]

supersede(reqs) ==
  [i \in 1..Len(reqs) |->
     IF reqs[i].op = "search" THEN [reqs[i] EXCEPT !.superseded = TRUE]
                              ELSE reqs[i]]

searchThrown(o) ==
  IF o.kind = "throw" THEN [name |-> o.name, message |-> o.message]
  ELSE IF ~o.ok THEN Error(Str("Search failed: ") \o o.statusText)
  ELSE IF ~o.json THEN SyntaxError
  ELSE NoError

searchErrorMessage_Generic(err) == Str("Search failed. Please try again.")

searchErrorMessage(err) ==
  classify(err,
           Str("Cannot connect to backend server at ") \o BACKEND_URL
             \o Str(". Please ensure the backend server is running."),
           Str("Search request timed out. Please try again."))

rejectsCommit_Never(terms) == FALSE

\* handleSearch line 111: terms.length === 0
rejectsCommit(terms) == Len(terms) = 0

\* handleSearch(terms, mode) up to its await
handleSearch(terms, mode) ==
  IF rejectsCommit(terms)
    THEN /\ error' = Str("Please add at least one search keyword")
         /\ UNCHANGED <<searchTerms, searchMode, searchCore, listVars,
                        modalVars, netVars>>
    ELSE /\ Len(pending) < MaxInFlight
         /\ isLoading' = TRUE
         /\ error' = <<>>
         /\ hasSearched' = TRUE
         /\ lastSearchTerms' = terms
         /\ searchTerms' = terms
         /\ selectedResults' = {}
         /\ pending' = Append(supersede(pending), searchRequest(terms, mode))
         /\ UNCHANGED <<searchMode, results, listVars, modalVars>>

searchResponse_Merges(r, o) ==
  /\ awaiting(r, "search")
  /\ settle(r)
  /\ IF searchThrown(o) = NoError
       THEN /\ results' = results \o arrayOrEmpty(o.body, "results")
            /\ UNCHANGED error
       ELSE /\ error' = searchErrorMessage(searchThrown(o))
            /\ results' = <<>>
  /\ isLoading' = FALSE
  /\ UNCHANGED <<searchTerms, searchMode, selectedResults, hasSearched,
                 lastSearchTerms, listVars, modalVars>>

\* handleSearch after its await
searchResponse(r, o) ==
  /\ awaiting(r, "search")
  /\ settle(r)
  /\ IF searchThrown(o) = NoError
       THEN /\ results' = arrayOrEmpty(o.body, "results")
            /\ UNCHANGED error
       ELSE /\ error' = searchErrorMessage(searchThrown(o))
            /\ results' = <<>>
  /\ isLoading' = FALSE
  /\ UNCHANGED <<searchTerms, searchMode, selectedResults, hasSearched,
                 lastSearchTerms, listVars, modalVars>>

\* handleSearchModeChange(mode)
handleSearchModeChange(mode) ==
  /\ searchMode' = mode
  /\ UNCHANGED <<searchTerms, error, searchCore, listVars, modalVars, netVars>>

newSelected_AddOnly(selected, contactId) == selected \cup {contactId}

\* handleSelectResult lines 171-176: the copy of the set after has/delete/add
newSelected(selected, contactId) ==
  IF contactId \in selected THEN selected \ {contactId}
                            ELSE selected \cup {contactId}

\* handleSelectResult(contactId)
handleSelectResult(contactId) ==
  /\ selectedResults' = newSelected(selectedResults, contactId)
  /\ UNCHANGED <<searchTerms, searchMode, error, results, isLoading,
                 hasSearched, lastSearchTerms, listVars, modalVars, netVars>>

handleSelectAll_NeverClears ==
  /\ selectedResults' = {results[i].contact_id : i \in 1..Len(results)}
  /\ UNCHANGED <<searchTerms, searchMode, error, results, isLoading,
                 hasSearched, lastSearchTerms, listVars, modalVars, netVars>>

\* handleSelectAll()
handleSelectAll ==
  /\ selectedResults' =
       IF Cardinality(selectedResults) = Len(results)
         THEN {}
         ELSE {results[i].contact_id : i \in 1..Len(results)}
  /\ UNCHANGED <<searchTerms, searchMode, error, results, isLoading,
                 hasSearched, lastSearchTerms, listVars, modalVars, netVars>>

\* ---- createNewList / addToExistingList ----
\* Number.prototype.toString for the counts the backend reports
toString(n) == <<"0", "1", "2", "3", "4">>[n + 1]

\* `${addResult.num_added}`: an absent field prints as undefined
numAddedText(body) ==
  IF "num_added" \in DOMAIN body THEN Str(toString(body.num_added))
                                 ELSE Str("undefined")

createRequest(name, rawName, selected) ==
  [op |-> "create", name |-> name,
   newListName |-> rawName, selectedResults |-> selected]

\* origin names the handler whose call is suspended on the request
attachRequest(listId, contactIds, origin, listLabel) ==
  [op |-> "attach", listId |-> listId, contact_ids |-> contactIds,
   origin |-> origin, listLabel |-> listLabel]

\* errorData.detail || `${prefix}${statusText}`, with
\* errorData = await response.json().catch(() => ({}))
notOkError(o, prefix) ==
  Error(orElse(IF o.json THEN o.body ELSE NoBody, "detail",
               Str(prefix) \o o.statusText))

createThrown_NoStatusCheck(o) ==
  IF o.kind = "throw" THEN [name |-> o.name, message |-> o.message]
  ELSE IF ~o.json THEN SyntaxError
  ELSE IF orElse(o.body, "listId", <<>>) = <<>>
    THEN Error(Str("Failed to get list ID from created list"))
  ELSE NoError

createThrown(o) ==
  IF o.kind = "throw" THEN [name |-> o.name, message |-> o.message]
  ELSE IF ~o.ok THEN notOkError(o, "Failed to create list: ")
  ELSE IF ~o.json THEN SyntaxError
  ELSE IF orElse(o.body, "listId", <<>>) = <<>>
    THEN Error(Str("Failed to get list ID from created list"))
  ELSE NoError

attachThrown_NoStatusCheck(o) ==
  IF o.kind = "throw" THEN [name |-> o.name, message |-> o.message]
  ELSE IF ~o.json THEN SyntaxError
  ELSE NoError

attachThrown(o) ==
  IF o.kind = "throw" THEN [name |-> o.name, message |-> o.message]
  ELSE IF ~o.ok THEN notOkError(o, "Failed to add contacts to list: ")
  ELSE IF ~o.json THEN SyntaxError
  ELSE NoError

syncErrorMessage(err) ==
  classify(err,
           Str("Cannot connect to backend server. Please ensure the backend server is running at ")
             \o BACKEND_URL \o Str("."),
           Str("Request timed out. Please try again."))

nameExists_CaseSensitive(lists, trimmedName) ==
  \E i \in 1..Len(lists) : lists[i].name = trimmedName

\* hubspotLists?.some(list => list.name.toLowerCase() === trimmedName.toLowerCase())
nameExists(lists, trimmedName) ==
  \E i \in 1..Len(lists) :
    toLowerCase(lists[i].name) = toLowerCase(trimmedName)

\* createNewList() up to its first await
createNewList ==
  LET trimmedName == trim(newListName)
  IN  IF trimmedName = <<>>
        THEN /\ error' = Str("Please enter a list name")
             /\ UNCHANGED <<searchTerms, searchMode, searchCore, listVars,
                            modalVars, netVars>>
      ELSE IF nameExists(hubspotLists, trimmedName)
        THEN /\ error' = Str("A list with this name already exists. Please choose a unique name.")
             /\ UNCHANGED <<searchTerms, searchMode, searchCore, listVars,
                            modalVars, netVars>>
      ELSE /\ Len(pending) < MaxInFlight
           /\ isAddingToList' = TRUE
           /\ error' = <<>>
           /\ fetch(createRequest(trim(newListName), newListName,
                                  selectedResults))
           /\ UNCHANGED <<searchTerms, searchMode, searchCore, listVars,
                          showAddModal, addMode, newListName, selectedListId,
                          addSuccess>>

\* createNewList() after the create response
createResponse(r, o) ==
  /\ awaiting(r, "create")
  /\ IF createThrown(o) = NoError
       THEN /\ settleAndFetch(r, attachRequest(o.body.listId,
                                               pending[r].selectedResults,
                                               "createNewList",
                                               pending[r].newListName))
            /\ UNCHANGED <<error, isAddingToList>>
       ELSE /\ settle(r)
            /\ error' = syncErrorMessage(createThrown(o))
            /\ isAddingToList' = FALSE
  /\ UNCHANGED <<searchTerms, searchMode, searchCore, listVars, showAddModal,
                 addMode, newListName, selectedListId, addSuccess>>

createdMessage_RequestedCount(listLabel, body, contactIds) ==
  Str("Successfully created list \"") \o listLabel \o Str("\" and added ")
    \o Str(toString(Cardinality(contactIds))) \o Str(" contacts")

\* line 255: the success report of createNewList
createdMessage(listLabel, body, contactIds) ==
  Str("Successfully created list \"") \o listLabel \o Str("\" and added ")
    \o numAddedText(body) \o Str(" contacts")

createAttachResponse_AlwaysRefreshes(r, o) ==
  /\ awaiting(r, "attach")
  /\ pending[r].origin = "createNewList"
  /\ IF attachThrown(o) = NoError
       THEN /\ addSuccess' = createdMessage(pending[r].listLabel, o.body,
                                            pending[r].contact_ids)
            /\ showAddModal' = FALSE
            /\ newListName' = <<>>
            /\ selectedResults' = {}
            /\ UNCHANGED <<error, isAddingToList>>
       ELSE /\ error' = syncErrorMessage(attachThrown(o))
            /\ isAddingToList' = FALSE
            /\ UNCHANGED <<addSuccess, showAddModal, newListName,
                           selectedResults>>
  /\ isLoadingLists' = TRUE
  /\ listsError' = <<>>
  /\ settleAndFetch(r, listsRequest("createNewList"))
  /\ UNCHANGED <<searchTerms, searchMode, results, isLoading, hasSearched,
                 lastSearchTerms, hubspotLists, addMode, selectedListId>>

\* createNewList() after the attach response
createAttachResponse(r, o) ==
  /\ awaiting(r, "attach")
  /\ pending[r].origin = "createNewList"
  /\ IF attachThrown(o) = NoError
       THEN /\ addSuccess' = createdMessage(pending[r].listLabel, o.body,
                                            pending[r].contact_ids)
            /\ showAddModal' = FALSE
            /\ newListName' = <<>>
            /\ selectedResults' = {}
            \* await loadHubSpotLists()
            /\ isLoadingLists' = TRUE
            /\ listsError' = <<>>
            /\ settleAndFetch(r, listsRequest("createNewList"))
            /\ UNCHANGED <<error, isAddingToList>>
       ELSE /\ settle(r)
            /\ error' = syncErrorMessage(attachThrown(o))
            /\ isAddingToList' = FALSE
            /\ UNCHANGED <<addSuccess, showAddModal, newListName,
                           selectedResults, isLoadingLists, listsError>>
  /\ UNCHANGED <<searchTerms, searchMode, results, isLoading, hasSearched,
                 lastSearchTerms, hubspotLists, addMode, selectedListId>>

\* hubspotLists.find(list => list.listId === selectedListId)?.name || 'selected list'
selectedListLabel(lists, listId) ==
  IF \E i \in 1..Len(lists) : lists[i].listId = listId
    THEN LET i == CHOOSE k \in 1..Len(lists) :
                    /\ lists[k].listId = listId
                    /\ \A j \in 1..(k - 1) : lists[j].listId # listId
         IN  IF lists[i].name # <<>> THEN lists[i].name
                                     ELSE Str("selected list")
    ELSE Str("selected list")

addToExistingList_NoIdCheck ==
  /\ Len(pending) < MaxInFlight
  /\ isAddingToList' = TRUE
  /\ error' = <<>>
  /\ fetch(attachRequest(selectedListId, selectedResults,
                         "addToExistingList",
                         selectedListLabel(hubspotLists, selectedListId)))
  /\ UNCHANGED <<searchTerms, searchMode, searchCore, listVars,
                 showAddModal, addMode, newListName, selectedListId,
                 addSuccess>>

\* addToExistingList() up to its await
addToExistingList ==
  IF selectedListId = <<>>
    THEN /\ error' = Str("Please select a list")
         /\ UNCHANGED <<searchTerms, searchMode, searchCore, listVars,
                        modalVars, netVars>>
    ELSE /\ Len(pending) < MaxInFlight
         /\ isAddingToList' = TRUE
         /\ error' = <<>>
         /\ fetch(attachRequest(selectedListId, selectedResults,
                                "addToExistingList",
                                selectedListLabel(hubspotLists, selectedListId)))
         /\ UNCHANGED <<searchTerms, searchMode, searchCore, listVars,
                        showAddModal, addMode, newListName, selectedListId,
                        addSuccess>>

\* addToExistingList() after the attach response
existingAttachResponse(r, o) ==
  /\ awaiting(r, "attach")
  /\ pending[r].origin = "addToExistingList"
  /\ settle(r)
  /\ IF attachThrown(o) = NoError
       THEN /\ addSuccess' = Str("Successfully added ") \o numAddedText(o.body)
                               \o Str(" contacts to \"")
                               \o pending[r].listLabel \o Str("\"")
            /\ showAddModal' = FALSE
            /\ selectedListId' = <<>>
            /\ selectedResults' = {}
            /\ UNCHANGED error
       ELSE /\ error' = syncErrorMessage(attachThrown(o))
            /\ UNCHANGED <<addSuccess, showAddModal, selectedListId,
                           selectedResults>>
  /\ isAddingToList' = FALSE
  /\ UNCHANGED <<searchTerms, searchMode, results, isLoading, hasSearched,
                 lastSearchTerms, listVars, addMode, newListName>>

\* ---- the modal's own controls ----
\* the Add to HubSpot button: setShowAddModal(true)
openAddModal ==
  /\ showAddModal' = TRUE
  /\ UNCHANGED <<searchTerms, searchMode, error, searchCore, listVars, addMode,
                 newListName, selectedListId, isAddingToList, addSuccess,
                 netVars>>

\* the X and Cancel buttons of the modal
closeAddModal ==
  /\ showAddModal' = FALSE
  /\ error' = <<>>
  /\ newListName' = <<>>
  /\ selectedListId' = <<>>
  /\ UNCHANGED <<searchTerms, searchMode, searchCore, listVars, addMode,
                 isAddingToList, addSuccess, netVars>>

setAddMode(mode) ==
  /\ addMode' = mode
  /\ UNCHANGED <<searchTerms, searchMode, error, searchCore, listVars,
                 showAddModal, newListName, selectedListId, isAddingToList,
                 addSuccess, netVars>>

setNewListName(value) ==
  /\ newListName' = value
  /\ UNCHANGED <<searchTerms, searchMode, error, searchCore, listVars,
                 showAddModal, addMode, selectedListId, isAddingToList,
                 addSuccess, netVars>>

setSelectedListId(listId) ==
  /\ selectedListId' = listId
  /\ UNCHANGED <<searchTerms, searchMode, error, searchCore, listVars,
                 showAddModal, addMode, newListName, isAddingToList,
                 addSuccess, netVars>>

\* the X of the success banner: setAddSuccess('')
dismissAddSuccess ==
  /\ addSuccess' = <<>>
  /\ UNCHANGED <<searchTerms, searchMode, error, searchCore, listVars,
                 showAddModal, addMode, newListName, selectedListId,
                 isAddingToList, netVars>>

\* what the page handlers leave alone
pageFrame == UNCHANGED <<uploadVars, termVars, authVars>>

InitTerms ==
  /\ childTerms = <<>>
  /\ currentInput = <<>>
  /\ nAdded = 0
  /\ nRemoved = 0

\* the page after its first render and its mount effect, which has called
\* loadHubSpotLists()
InitPage ==
  /\ searchTerms = <<>>
  /\ searchMode = "or"
  /\ results = <<>>
  /\ selectedResults = {}
  /\ isLoading = FALSE
  /\ error = <<>>
  /\ hasSearched = FALSE
  /\ lastSearchTerms = <<>>
  /\ hubspotLists = <<>>
  /\ isLoadingLists = TRUE
  /\ listsError = <<>>
  /\ showAddModal = FALSE
  /\ addMode = "create"
  /\ newListName = <<>>
  /\ selectedListId = <<>>
  /\ isAddingToList = FALSE
  /\ addSuccess = <<>>
  /\ pending = <<listsRequest("none")>>

(***************************************************************************)
(* AuthContext.tsx                                                         *)
(***************************************************************************)
Null == [null |-> TRUE]
\* JSON.stringify(value): the text stored; JSON.parse gives the value back
JSONstringify(value) == [json |-> value]
JSONparseText(text) == text.json

\* the provider of a browser that holds no session, after its mount effect
InitAuth ==
  /\ isAuthenticated = FALSE
  /\ user = Null
  /\ storedAuth = Null
  /\ mountPending = FALSE
  /\ loginReturn = <<>>

logout_KeepsEntry ==
  /\ isAuthenticated' = FALSE
  /\ user' = Null
  /\ UNCHANGED <<storedAuth, mountPending, loginReturn>>

\* login(username, password)
login(username, password) ==
  IF username = Str("Timo") /\ password = Str("Timo@123")
    THEN LET userData == [username |-> username]
         IN  /\ isAuthenticated' = TRUE
             /\ user' = userData
             /\ storedAuth' = JSONstringify([user |-> userData])
             /\ loginReturn' = <<TRUE>>
             /\ UNCHANGED mountPending
    ELSE /\ loginReturn' = <<FALSE>>
         /\ UNCHANGED <<isAuthenticated, user, storedAuth, mountPending>>

\* logout()
logout ==
  /\ isAuthenticated' = FALSE
  /\ user' = Null
  /\ storedAuth' = Null
  /\ UNCHANGED <<mountPending, loginReturn>>

\* the mount effect of AuthProvider: restore the session that is stored
mountEffect ==
  /\ mountPending
  /\ mountPending' = FALSE
  /\ LET savedAuth == storedAuth
     IN  IF savedAuth # Null
           THEN LET authData == JSONparseText(savedAuth)
                IN  /\ isAuthenticated' = TRUE
                    /\ user' = authData.user
           ELSE UNCHANGED <<isAuthenticated, user>>
  /\ UNCHANGED <<storedAuth, loginReturn>>

Init == InitUpload /\ InitTerms /\ InitPage /\ InitAuth

(***************************************************************************)
(* The upload component driven by the user and by the transport            *)
(***************************************************************************)
NextUpload ==
  /\ \/ \E fileList \in Batches :
          /\ Len(submitted) + Len(fileList) <= MaxSubmitted
          /\ handleFiles(fileList)
     \/ \E fileId \in DOMAIN xhrs, lengthComputable \in BOOLEAN,
           loaded \in 0..XhrTotal :
          onProgress(fileId, lengthComputable, loaded)
     \/ \E fileId \in DOMAIN xhrs, reply \in HttpReplies,
           responseText \in ResponseTexts :
          onLoad(fileId, reply.status, responseText, reply.statusText)
     \/ \E fileId \in DOMAIN xhrs : onError(fileId)
     \/ \E i \in 1..Len(files) : removeFile(files[i].id)
  /\ UNCHANGED <<termVars, pageVars, authVars>>

SpecUpload == Init /\ [][NextUpload]_vars

allSettled == \A id \in DOMAIN xhrs : xhrs[id].state = "done"
acceptedFiles == SelectSeq(submitted, validateFile)

\* C1: once every upload request has settled and no item was removed, the
\* collection holds exactly one item per accepted file, in submission order
\* and with distinct ids, each with status success or error, and every
\* successful item has progress 100.
C1_SettledBatchIsTerminal ==
  (allSettled /\ ~removedAny) =>
    /\ Len(files) = Len(acceptedFiles)
    /\ \A i \in 1..Len(files) :
         /\ files[i].file = acceptedFiles[i]
         /\ files[i].status \in {"success", "error"}
         /\ files[i].status = "success" => files[i].progress = 100
         /\ \A j \in 1..Len(files) : files[i].id = files[j].id => i = j

\* C1 witness: two accepted files, both settled, one parsed and one failed.
C1_Witness ==
  /\ allSettled /\ ~removedAny
  /\ Len(files) = 2
  /\ files[1].status = "success" /\ files[2].status = "error"

\* C2: no item and no upload request exists for a file that validateFile
\* rejects; the requests are exactly one per accepted file.
C2_RejectedNeverUploaded ==
  /\ \A i \in 1..Len(files) : validateFile(files[i].file)
  /\ \A id \in DOMAIN xhrs : validateFile(xhrs[id].file)
  /\ Cardinality(DOMAIN xhrs) = Len(acceptedFiles)

\* C2 witness: a 12 MiB PDF was submitted together with an accepted file,
\* which is the only item and the only request.
C2_Witness ==
  /\ submitted = <<BigPdf, CvDocx>>
  /\ Len(files) = 1 /\ DOMAIN xhrs = {files[1].id}

(***************************************************************************)
(* What the backend and the user can supply                                *)
(***************************************************************************)
OK == Str("OK")
ServerError == Str("Internal Server Error")

\* a SearchResult, of which the page inspects the contact_id
Result(contactId) == [contact_id |-> contactId]
ResultsAB == <<Result("c1"), Result("c2")>>
ResultsB  == <<Result("c2")>>
SearchOk(rs) == Reply(TRUE, OK, TRUE, [mode |-> "or", results |-> rs])
SearchOkNoResults == Reply(TRUE, OK, TRUE, [mode |-> "or"])
\* a non-success response whose JSON body carries the server's detail
RejectedWithDetail(detail) ==
  Reply(FALSE, ServerError, TRUE, [detail |-> Str(detail)])
SearchOutcomes ==
  {SearchOk(ResultsAB), SearchOk(ResultsB), SearchOkNoResults,
   Unreachable, UnreachableSafari, TimedOut,
   Reply(FALSE, ServerError, FALSE, NoBody), NotJson(TRUE, OK),
   RejectedWithDetail("index offline")}
\* the outcomes used where the kind of failure does not matter
FewSearchOutcomes == {SearchOk(ResultsAB), SearchOk(ResultsB), Unreachable}
Contacts == {"c1", "c2", "c3"}

HubSpotList(listId, name) == [listId |-> listId, name |-> name]
EngList == HubSpotList(Str("L1"), <<"E","n","g">>)
ListsOk(ls) == Reply(TRUE, OK, TRUE, [lists |-> ls])
ListsOutcomes == {ListsOk(<<EngList>>), Reply(TRUE, OK, TRUE, [total |-> 0]),
                  Unreachable, RejectedWithDetail("token expired")}

CreateOk(listId) == Reply(TRUE, OK, TRUE, [listId |-> listId])
CreateOutcomes ==
  {CreateOk(Str("L9")), Reply(TRUE, OK, TRUE, [name |-> Str("x")]),
   Reply(FALSE, ServerError, TRUE, [detail |-> Str("quota exceeded")]),
   TimedOut}

AttachOk(n) == Reply(TRUE, OK, TRUE, [num_added |-> n])
AttachOutcomes == {AttachOk(1), AttachOk(2),
                   Reply(FALSE, Str(""), FALSE, NoBody), Unreachable}

\* the outcomes used where the whole page is explored
PageListsOutcomes == {ListsOk(<<EngList>>), Unreachable}
PageCreateOutcomes == {CreateOk(Str("L9")), TimedOut}
PageAttachOutcomes == {AttachOk(2), Unreachable}
PageListNameInputs == {<<"e","N","G"," ">>, <<"Q","1">>}

\* what is typed into the keyword input
TermInputs == {<<>>, <<" ">>, <<"a">>, <<" ","a"," ">>, <<"A">>,
               <<"b"," ","c">>}
FewTermInputs == {<<"a">>, <<" ","b">>}
\* term lists handed to handleSearch when it is called directly
TermLists == {<<>>, << <<"a">> >>, << <<"b">>, <<"a">> >>}
\* what is typed into the list-name input
ListNameInputs == {<<" ">>, <<"e","N","G"," ">>, <<"Q","1">>}

(***************************************************************************)
(* The rendered controls: when each handler can be reached                 *)
(***************************************************************************)
\* The modal's backdrop (fixed inset-0) stops the pointer only: the controls
\* beneath it stay rendered, enabled and in the tab order, so every guard
\* below is the control's own render and disabled condition.
\* MultiSelectSearch: input, tag and clear buttons are disabled={isLoading}
builderEnabled == ~isLoading
searchButtonEnabled_WhileLoading == Len(childTerms) # 0
\* the Search button: disabled={searchTerms.length === 0 || isLoading}
searchButtonEnabled == Len(childTerms) # 0 /\ ~isLoading
tableShown_WhileLoading == hasSearched /\ Len(results) > 0
\* the results table: hasSearched, not isLoading, results.length > 0
tableShown == hasSearched /\ ~isLoading /\ Len(results) > 0
\* the Add to HubSpot button
addButtonShown ==
  hasSearched /\ Len(results) > 0 /\ selectedResults # {}
nameInputEnabled == showAddModal /\ addMode = "create" /\ ~isAddingToList
listButtonsShown ==
  /\ showAddModal /\ addMode = "existing" /\ ~isAddingToList
  /\ ~isLoadingLists /\ listsError = <<>>
retryShown ==
  showAddModal /\ addMode = "existing" /\ ~isLoadingLists /\ listsError # <<>>
submitEnabled_IgnoresBusy ==
  /\ showAddModal
  /\ addMode = "create" => trim(newListName) # <<>>
  /\ addMode = "existing" => selectedListId # <<>>
\* the submit button of the modal
submitEnabled ==
  /\ showAddModal /\ ~isAddingToList
  /\ addMode = "create" => trim(newListName) # <<>>
  /\ addMode = "existing" => selectedListId # <<>>

\* ---- events of the builder ----
UiType(value) == builderEnabled /\ setCurrentInput(value) /\ termFrame
UiKey(key) == builderEnabled /\ handleKeyDown(key) /\ termFrame
UiRemoveTag(index) ==
  /\ builderEnabled /\ index \in 0..(Len(childTerms) - 1)
  /\ removeSearchTerm(index) /\ termFrame
UiClearAll ==
  builderEnabled /\ Len(childTerms) > 0 /\ clearAllTerms /\ termFrame
\* MultiSelectSearch.handleSearch: onSearch(searchTerms)
UiSearch ==
  searchButtonEnabled /\ handleSearch(childTerms, searchMode) /\ pageFrame

\* ---- events of the page ----
UiMode(mode) ==
  ~isLoading /\ handleSearchModeChange(mode) /\ pageFrame
UiToggle(i) ==
  /\ tableShown /\ i \in 1..Len(results)
  /\ handleSelectResult(results[i].contact_id) /\ pageFrame
UiSelectAll == tableShown /\ handleSelectAll /\ pageFrame
UiOpenModal == addButtonShown /\ openAddModal /\ pageFrame
UiCloseModal == showAddModal /\ closeAddModal /\ pageFrame
UiAddMode(mode) == showAddModal /\ setAddMode(mode) /\ pageFrame
UiListName(value) == nameInputEnabled /\ setNewListName(value) /\ pageFrame
UiPickList(i) ==
  /\ listButtonsShown /\ i \in 1..Len(hubspotLists)
  /\ setSelectedListId(hubspotLists[i].listId) /\ pageFrame
UiRetryLists == retryShown /\ loadHubSpotLists /\ pageFrame
UiSubmit ==
  /\ submitEnabled
  /\ IF addMode = "create" THEN createNewList ELSE addToExistingList
  /\ pageFrame
UiDismissSuccess ==
  addSuccess # <<>> /\ dismissAddSuccess /\ pageFrame

\* ---- responses ----
NetSearch(r, o) == searchResponse(r, o) /\ pageFrame
NetLists(r, o) == listsResponse(r, o) /\ pageFrame
NetCreate(r, o) == createResponse(r, o) /\ pageFrame
NetCreateAttach(r, o) == createAttachResponse(r, o) /\ pageFrame
NetExistingAttach(r, o) == existingAttachResponse(r, o) /\ pageFrame

(***************************************************************************)
(* SpecTerms: the builder alone                                            *)
(***************************************************************************)
NextTerms ==
  \/ \E value \in TermInputs : UiType(value)
  \/ \E key \in {"Enter", "Backspace"} : UiKey(key)
  \/ \E index \in 0..(Len(childTerms) - 1) : UiRemoveTag(index)

SpecTerms == Init /\ [][NextTerms]_vars

(***************************************************************************)
(* SpecSearch: builder, search and selection as rendered, with the modal   *)
(* opened and closed over them                                             *)
(***************************************************************************)
NextSearch ==
  \/ \E value \in FewTermInputs : UiType(value)
  \/ \E key \in {"Enter", "Backspace"} : UiKey(key)
  \/ \E index \in 0..(Len(childTerms) - 1) : UiRemoveTag(index)
  \/ UiClearAll
  \/ UiSearch
  \/ \E mode \in {"or", "and"} : UiMode(mode)
  \/ \E i \in 1..Len(results) : UiToggle(i)
  \/ UiSelectAll
  \/ UiOpenModal
  \/ UiCloseModal
  \/ \E r \in 1..Len(pending), o \in SearchOutcomes : NetSearch(r, o)
  \/ \E r \in 1..Len(pending), o \in ListsOutcomes : NetLists(r, o)

SpecSearch == Init /\ [][NextSearch]_vars

(***************************************************************************)
(* SpecPage: the whole page as rendered                                    *)
(***************************************************************************)
NextPage ==
  \/ UiType(<<"a">>)
  \/ UiKey("Enter")
  \/ UiSearch
  \/ \E i \in 1..Len(results) : UiToggle(i)
  \/ UiSelectAll
  \/ UiOpenModal
  \/ UiCloseModal
  \/ \E mode \in {"create", "existing"} : UiAddMode(mode)
  \/ \E value \in PageListNameInputs : UiListName(value)
  \/ \E i \in 1..Len(hubspotLists) : UiPickList(i)
  \/ UiRetryLists
  \/ UiSubmit
  \/ UiDismissSuccess
  \/ \E r \in 1..Len(pending), o \in FewSearchOutcomes : NetSearch(r, o)
  \/ \E r \in 1..Len(pending), o \in PageListsOutcomes : NetLists(r, o)
  \/ \E r \in 1..Len(pending), o \in PageCreateOutcomes : NetCreate(r, o)
  \/ \E r \in 1..Len(pending), o \in PageAttachOutcomes : NetCreateAttach(r, o)
  \/ \E r \in 1..Len(pending), o \in PageAttachOutcomes : NetExistingAttach(r, o)

SpecPage == Init /\ [][NextPage]_vars

(***************************************************************************)
(* The page's handlers called directly, in any state                       *)
(***************************************************************************)
\* These steps call a handler whatever the controls show: every run of the
\* rendered page is a run of these specifications, so what holds here holds
\* of the page, while a run found only here (two searches outstanding at
\* once) need not be one the page can produce.
OpsSearch(terms, mode) == handleSearch(terms, mode) /\ pageFrame
OpsSelect(contactId) == handleSelectResult(contactId) /\ pageFrame
OpsSelectAll == handleSelectAll /\ pageFrame
OpsListName(value) == setNewListName(value) /\ pageFrame
OpsCreateNewList == createNewList /\ pageFrame

\* SpecSearchOps: the search and selection handlers
NextSearchOps ==
  \/ \E terms \in TermLists, mode \in {"or", "and"} : OpsSearch(terms, mode)
  \/ \E contactId \in Contacts : OpsSelect(contactId)
  \/ OpsSelectAll
  \/ \E r \in 1..Len(pending), o \in FewSearchOutcomes : NetSearch(r, o)
  \/ \E r \in 1..Len(pending), o \in PageListsOutcomes : NetLists(r, o)

SpecSearchOps == Init /\ [][NextSearchOps]_vars

\* SpecSyncOps: selection and createNewList
NextSyncOps ==
  \/ OpsSelect("c1")
  \/ \E value \in ListNameInputs : OpsListName(value)
  \/ OpsCreateNewList
  \/ \E r \in 1..Len(pending), o \in PageListsOutcomes : NetLists(r, o)
  \/ \E r \in 1..Len(pending), o \in PageCreateOutcomes : NetCreate(r, o)
  \/ \E r \in 1..Len(pending), o \in PageAttachOutcomes : NetCreateAttach(r, o)

SpecSyncOps == Init /\ [][NextSyncOps]_vars

\* every kind of outcome of the create request
SyncCreateOutcomes ==
  {CreateOk(Str("L9")), Reply(TRUE, OK, TRUE, [name |-> Str("x")]),
   Reply(FALSE, ServerError, TRUE, [detail |-> Str("quota exceeded")]),
   Reply(FALSE, ServerError, FALSE, NoBody), Unreachable, TimedOut}
\* every kind of outcome of the attach request
SyncAttachOutcomes ==
  {AttachOk(1), Reply(FALSE, ServerError, FALSE, NoBody),
   Unreachable, TimedOut}
SyncContacts == {"c1", "c2"}

OpsPickList(listId) == setSelectedListId(listId) /\ pageFrame
OpsAddToExistingList == addToExistingList /\ pageFrame

\* SpecCreateOps: createNewList under every kind of outcome
NextCreateOps ==
  \/ \E contactId \in SyncContacts : OpsSelect(contactId)
  \/ OpsListName(<<"Q","1">>)
  \/ OpsCreateNewList
  \/ \E r \in 1..Len(pending), o \in {ListsOk(<<EngList>>)} : NetLists(r, o)
  \/ \E r \in 1..Len(pending), o \in SyncCreateOutcomes : NetCreate(r, o)
  \/ \E r \in 1..Len(pending), o \in SyncAttachOutcomes :
       NetCreateAttach(r, o)

SpecCreateOps == Init /\ [][NextCreateOps]_vars

\* SpecAttachOps: addToExistingList under every kind of outcome
NextAttachOps ==
  \/ \E contactId \in SyncContacts : OpsSelect(contactId)
  \/ OpsPickList(Str("L1"))
  \/ OpsAddToExistingList
  \/ \E r \in 1..Len(pending), o \in PageListsOutcomes : NetLists(r, o)
  \/ \E r \in 1..Len(pending), o \in SyncAttachOutcomes \cup {UnreachableSafari} :
       NetExistingAttach(r, o)

SpecAttachOps == Init /\ [][NextAttachOps]_vars

(***************************************************************************)
(* Search: commits and responses                                           *)
(***************************************************************************)
resultIds == {results[i].contact_id : i \in 1..Len(results)}
lastPendingNext == pending'[Len(pending')]
EmptyCommitMessage == Str("Please add at least one search keyword")

\* C3: the response to a search request that a later commit has superseded
\* is discarded: delivering it changes neither the displayed results nor
\* the displayed error.  handleSearch is called by the Search button alone,
\* which is disabled while isLoading, so under SpecSearch and SpecPage no
\* request is ever superseded and the formula has no case to decide; it is
\* violated only under SpecSearchOps, where handleSearch is called while a
\* search is outstanding, which the rendered page never does.
C3_StaleResponseDiscarded ==
  [][\A r \in 1..Len(pending) :
       (/\ pending[r].op = "search"
        /\ pending[r].superseded
        /\ pending' = withoutAt(pending, r))
       => UNCHANGED <<results, error>>]_vars

\* C4: every selected identifier is the contact_id of a current result.
C4_SelectionWithinResults == selectedResults \subseteq resultIds

\* C4 witness: after a sync completed and the results were replaced, a
\* contact of the current results is selected.
C4_Witness ==
  /\ addSuccess # <<>>
  /\ results = ResultsB
  /\ selectedResults = {"c2"}

\* C5: the term set holds no blank string and no string twice, and its
\* length is the number of accepted adds minus the number of removes that
\* removed a term.
C5_TermSetWellFormed ==
  /\ \A i \in 1..Len(childTerms) :
       /\ childTerms[i] # <<>>
       /\ \E k \in 1..Len(childTerms[i]) : childTerms[i][k] # " "
       /\ \A j \in 1..Len(childTerms) : childTerms[i] = childTerms[j] => i = j
  /\ Len(childTerms) = nAdded - nRemoved

\* C5 witness: three adds were accepted, one term was removed, and the set
\* holds two terms that differ in letter case only.
C5_Witness ==
  /\ nAdded = 3 /\ nRemoved = 1
  /\ childTerms = << <<"a">>, <<"A">> >>

\* C6: a step that changes the term set changes neither results, selection,
\* LastQuery, the searching flag nor the outstanding requests; a step that
\* issues a search request leaves the term set alone and sends its terms.
C6_EditsNeverSearch ==
  [][/\ childTerms' # childTerms =>
          UNCHANGED <<results, selectedResults, lastSearchTerms, isLoading,
                      hasSearched, pending>>
     /\ (Len(pending') > Len(pending) /\ lastPendingNext.op = "search") =>
          /\ childTerms' = childTerms
          /\ lastPendingNext.keywords = childTerms]_vars

\* C6 witness: after a search whose results are shown and partly selected,
\* the term set was emptied; results, selection and LastQuery are in place.
C6_Witness ==
  /\ childTerms = <<>>
  /\ lastSearchTerms # <<>>
  /\ results # <<>> /\ selectedResults # {}
  /\ ~isLoading

\* C7: handleSearch([]) sends no request and leaves results, selection,
\* LastQuery, hasSearched and isLoading unchanged; it records the
\* validation message.
C7_EmptyCommitRejected ==
  [][\A mode \in {"or", "and"} :
       handleSearch(<<>>, mode) =>
         /\ pending' = pending
         /\ UNCHANGED <<results, selectedResults, lastSearchTerms, hasSearched,
                        isLoading>>
         /\ error' = EmptyCommitMessage]_vars

\* C7 witness: the validation message is shown while earlier results and a
\* selection are still in place.
C7_Witness ==
  /\ error = EmptyCommitMessage
  /\ results # <<>> /\ selectedResults # {} /\ lastSearchTerms # <<>>

\* C8: a commit with a non-empty term list sets the searching flag, empties
\* the selection, stores the terms as LastQuery and adds exactly one
\* request, a search carrying the committed terms in order and the mode
\* selected at that time.
C8_CommitIssuesOneSearch ==
  [][(Len(childTerms) > 0 /\ handleSearch(childTerms, searchMode)) =>
       /\ isLoading'
       /\ selectedResults' = {}
       /\ lastSearchTerms' = childTerms
       /\ Len(pending') = Len(pending) + 1
       /\ \A i \in 1..Len(pending) : pending'[i].op = pending[i].op
       /\ lastPendingNext.op = "search"
       /\ lastPendingNext.keywords = childTerms
       /\ lastPendingNext.mode = searchMode]_vars

\* C8 witness: a second commit, in match-all mode with two terms, is in
\* flight while the results of an earlier search are still held.
C8_Witness ==
  /\ isLoading /\ results # <<>> /\ selectedResults = {}
  /\ Len(lastSearchTerms) = 2
  /\ \E r \in 1..Len(pending) :
       /\ pending[r].op = "search"
       /\ pending[r].mode = "and"
       /\ pending[r].keywords = lastSearchTerms

(***************************************************************************)
(* List sync: createNewList                                                *)
(***************************************************************************)
DuplicateNameMessage ==
  Str("A list with this name already exists. Please choose a unique name.")

\* C9: createNewList with a name that is blank after trimming, or equal to a
\* cataloged name when both are lower-cased, records an error and sends
\* nothing; selection and catalog are unchanged.
C9_InvalidNameFailsLocally ==
  [][(/\ createNewList
      /\ \/ trim(newListName) = <<>>
         \/ \E i \in 1..Len(hubspotLists) :
              toLowerCase(hubspotLists[i].name) = toLowerCase(trim(newListName)))
     => /\ pending' = pending
        /\ error' # <<>>
        /\ UNCHANGED <<selectedResults, hubspotLists, isAddingToList>>]_vars

\* C9 witness: the duplicate-name error is shown for a name that differs
\* from the cataloged one in letter case and trailing blank.
C9_Witness ==
  /\ error = DuplicateNameMessage
  /\ hubspotLists = <<EngList>>
  /\ newListName = <<"e","N","G"," ">>
  /\ selectedResults # {}

\* C10: createNewList's create request captures the selection; on a create
\* response with a list identifier the attach request goes to that
\* identifier with exactly the captured contacts; on a successful attach
\* response the success report carries the response's num_added, the
\* selection is emptied and a catalog fetch is issued.
C10_CreateThenAttachSucceeds ==
  [][/\ (createNewList /\ Len(pending') > Len(pending)) =>
          /\ lastPendingNext.op = "create"
          /\ lastPendingNext.selectedResults = selectedResults
     /\ \A r \in 1..Len(pending), o \in PageCreateOutcomes :
          (createResponse(r, o) /\ o.kind = "reply" /\ o.ok
             /\ "listId" \in DOMAIN o.body) =>
            /\ Len(pending') = Len(pending)
            /\ lastPendingNext.op = "attach"
            /\ lastPendingNext.listId = o.body.listId
            /\ lastPendingNext.contact_ids = pending[r].selectedResults
     /\ \A r \in 1..Len(pending), o \in PageAttachOutcomes :
          (createAttachResponse(r, o) /\ o.kind = "reply" /\ o.ok) =>
            /\ addSuccess' = <<"Successfully created list \"">>
                               \o pending[r].listLabel
                               \o <<"\" and added ",
                                    toString(o.body.num_added), " contacts">>
            /\ selectedResults' = {}
            /\ lastPendingNext = listsRequest("createNewList")]_vars

\* C10 witness: the report "added 2 contacts" for list Q1 is shown, the
\* selection is empty and the catalog refresh is in flight.
C10_Witness ==
  /\ addSuccess = <<"Successfully created list \"", "Q", "1",
                    "\" and added ", "2", " contacts">>
  /\ selectedResults = {}
  /\ isAddingToList
  /\ \E r \in 1..Len(pending) : pending[r] = listsRequest("createNewList")

(***************************************************************************)
(* List sync: reports and failures                                         *)
(***************************************************************************)
\* the text holds the chunk
mentions(text, chunk) == \E i \in 1..Len(text) : text[i] = chunk
\* the attach response reports success
attachOk(o) == o.kind = "reply" /\ o.ok /\ o.json

\* C11: when a successful attach response reports fewer contacts added than
\* were requested, the success report of createNewList states both the
\* number attached and the number requested.
C11_PartialSuccessReported ==
  [][\A r \in 1..Len(pending), o \in SyncAttachOutcomes :
       (/\ createAttachResponse(r, o)
        /\ attachOk(o)
        /\ o.body.num_added < Cardinality(pending[r].contact_ids))
       => /\ mentions(addSuccess', toString(o.body.num_added))
          /\ mentions(addSuccess',
                      toString(Cardinality(pending[r].contact_ids)))]_vars

UnreachableMessage ==
  <<"Cannot connect to backend server. Please ensure the backend server is running at ">>
    \o BACKEND_URL \o <<".">>
TimeoutMessage == <<"Request timed out. Please try again.">>

\* C12: a failed attach response of addToExistingList records an error
\* message that depends on the kind of failure (unreachable, timeout,
\* non-success status) and leaves the selection unchanged; the selection is
\* emptied by a successful attach response, and the call itself does not
\* change it.
C12_AttachFailureKeepsSelection ==
  [][/\ addToExistingList => selectedResults' = selectedResults
     /\ \A r \in 1..Len(pending),
           o \in SyncAttachOutcomes \cup {UnreachableSafari} :
          existingAttachResponse(r, o) =>
            IF attachOk(o)
              THEN selectedResults' = {} /\ error' = error
              ELSE /\ selectedResults' = selectedResults
                   /\ error' # <<>>
                   /\ o = Unreachable => error' = UnreachableMessage
                   /\ o = TimedOut => error' = TimeoutMessage
                   /\ (o.kind = "reply" /\ ~o.ok) =>
                        error' = <<"Failed to add contacts to list: ">>
                                   \o o.statusText]_vars

\* C12 witness: the attach request of two selected contacts to list L1 found
\* no backend; the unreachable message is shown and both are still selected.
C12_Witness ==
  /\ error = UnreachableMessage
  /\ selectedResults = {"c1", "c2"}
  /\ selectedListId = Str("L1")
  /\ ~isAddingToList
  /\ \A r \in 1..Len(pending) : pending[r].op # "attach"

(***************************************************************************)
(* Upload: validation                                                      *)
(***************************************************************************)
\* names and sizes offered to validateFile
ValidateNames ==
  {<<"a",".","p","d","f">>, <<"a",".","P","D","F">>, <<"a",".","d","o","c">>,
   <<"a",".","t","x","t">>, <<"p","d","f">>, <<"D","O","C","X">>,
   <<"a",".","p","d","f",".","e","x","e">>, <<"a",".","b",".","d","o","c","x">>,
   <<"a",".">>, <<>>}
ValidateSizes == {0, maxFileSize, maxFileSize + 1}
ValidateFiles == {File(name, size) : name \in ValidateNames, size \in ValidateSizes}

\* SpecValidate: single files dropped on the component
NextValidate ==
  /\ \E file \in ValidateFiles :
       Len(submitted) < MaxSubmitted /\ handleFiles(<<file>>)
  /\ UNCHANGED <<termVars, pageVars, authVars>>

SpecValidate == Init /\ [][NextValidate]_vars

\* the text after the last dot of a name that holds a dot
extensionOf(name) ==
  LET lastDot == CHOOSE i \in 1..Len(name) :
                   name[i] = "." /\ \A j \in (i + 1)..Len(name) : name[j] # "."
  IN  SubSeq(name, lastDot + 1, Len(name))

\* C13: a submitted file becomes an upload item exactly when its name holds a
\* dot, the text after the last dot is pdf, doc or docx in any letter case,
\* and its size is at most 10 MiB.
C13_ValidateMatchesRule ==
  \A i \in 1..Len(submitted) :
    (\E j \in 1..Len(files) : files[j].file = submitted[i])
    <=> /\ mentions(submitted[i].name, ".")
        /\ toLowerCase(extensionOf(submitted[i].name))
             \in {<<"p","d","f">>, <<"d","o","c">>, <<"d","o","c","x">>}
        /\ submitted[i].size <= 10 * 1024 * 1024

(***************************************************************************)
(* Upload: the life of an item                                             *)
(***************************************************************************)
idsOf(fs) == {fs[i].id : i \in 1..Len(fs)}
itemOf(fs, id) == fs[CHOOSE i \in 1..Len(fs) : fs[i].id = id]
statusRank(status) ==
  CASE status = "queued" -> 0
    [] status = "uploading" -> 1
    [] status \in {"success", "error"} -> 2
\* an item kept by the step does not move backwards, and is left as it is
\* once it is in success or error
keptItemsMoveForward ==
  \A id \in idsOf(files) \cap idsOf(files') :
    /\ statusRank(itemOf(files', id).status)
         >= statusRank(itemOf(files, id).status)
    /\ itemOf(files, id).status \in {"success", "error"}
         => itemOf(files', id) = itemOf(files, id)

\* C14 as stated: an item starts in queued, its status only moves forward
\* through uploading to success or error, and an item in success or error
\* is changed by no later step.
C14_StatusOnlyForward ==
  [][/\ \A id \in idsOf(files') \ idsOf(files) :
          itemOf(files', id).status = "queued"
     /\ keptItemsMoveForward]_vars

\* C14 as amended: an item starts in uploading with progress 0, its status
\* moves only to success or error, and an item in success or error is
\* changed by no later step.
C14_StatusForwardFromUploading ==
  [][/\ \A id \in idsOf(files') \ idsOf(files) :
          /\ itemOf(files', id).status = "uploading"
          /\ itemOf(files', id).progress = 0
     /\ \A i \in 1..Len(files') :
          files'[i].status \in {"uploading", "success", "error"}
     /\ keptItemsMoveForward]_vars

\* C14 witness: the first item has failed while the second, created in the
\* same batch, is still uploading and has reported progress since.
C14_Witness ==
  /\ Len(files) = 2
  /\ files[1].status = "error" /\ files[1].progress = 0
  /\ files[2].status = "uploading" /\ files[2].progress > 0
  /\ xhrs[files[1].id].state = "done"

\* C15: on every step from a state in which an item is uploading, the item's
\* progress does not decrease; the progress of an uploading item is always
\* between 0 and 100.
C15_ProgressMonotone ==
  [][/\ \A id \in idsOf(files) \cap idsOf(files') :
          itemOf(files, id).status = "uploading"
            => itemOf(files', id).progress >= itemOf(files, id).progress
     /\ \A i \in 1..Len(files') :
          files'[i].status = "uploading"
            => files'[i].progress >= 0 /\ files'[i].progress <= 100]_vars

\* C15 witness: an uploading item whose reported progress is strictly
\* between 0 and 100 after a progress event that carried no length.
C15_Witness ==
  /\ Len(files) = 1
  /\ files[1].status = "uploading"
  /\ files[1].progress > 0 /\ files[1].progress < 100
  /\ xhrs[files[1].id].loaded = XhrTotal

\* the step changes no item but that of the upload, and moves none
onlyItemChanged(fileId) ==
  /\ Len(files') = Len(files)
  /\ \A i \in 1..Len(files) :
       /\ files'[i].id = files[i].id
       /\ files'[i].file = files[i].file
       /\ files[i].id # fileId => files'[i] = files[i]

\* C16: a progress, load or error callback of the upload with a given id
\* leaves every item with another id, and the order of the collection,
\* unchanged.
C16_CallbackScopedToItsItem ==
  [][\A fileId \in DOMAIN xhrs :
       /\ \A lengthComputable \in BOOLEAN, loaded \in 0..XhrTotal :
            onProgress(fileId, lengthComputable, loaded)
              => onlyItemChanged(fileId)
       /\ \A reply \in HttpReplies, responseText \in ResponseTexts :
            onLoad(fileId, reply.status, responseText, reply.statusText)
              => onlyItemChanged(fileId)
       /\ onError(fileId) => onlyItemChanged(fileId)]_vars

\* C16 witness: of two files uploading at once, the second has been parsed
\* while the first is still uploading at the progress it had reported.
C16_Witness ==
  /\ Len(files) = 2
  /\ files[1].status = "uploading" /\ files[1].progress > 0
  /\ files[1].progress < 100
  /\ files[2].status = "success" /\ files[2].progress = 100
  /\ files[1].id # files[2].id

\* C17: the requests started by a step are exactly those of the items the
\* step creates; every item has a request, which is in flight exactly while
\* the item is uploading; a settled request is never started again.
C17_OneRequestPerItem ==
  [][/\ DOMAIN xhrs' \ DOMAIN xhrs = idsOf(files') \ idsOf(files)
     /\ \A id \in DOMAIN xhrs' \ DOMAIN xhrs : xhrs'[id].state = "sent"
     /\ \A i \in 1..Len(files') :
          /\ files'[i].id \in DOMAIN xhrs'
          /\ xhrs'[files'[i].id].file = files'[i].file
          /\ files'[i].status = "uploading"
               <=> xhrs'[files'[i].id].state = "sent"
     /\ \A id \in DOMAIN xhrs :
          /\ id \in DOMAIN xhrs'
          /\ xhrs[id].state = "done" => xhrs'[id] = xhrs[id]]_vars

\* C17 witness: two items were created, each with its one request; both
\* requests failed in the network and nothing is in flight.
C17_Witness ==
  /\ Len(files) = 2 /\ Cardinality(DOMAIN xhrs) = 2
  /\ \A i \in 1..2 :
       /\ files[i].status = "error"
       /\ files[i].errorMessage = Str("Network error occurred")
       /\ xhrs[files[i].id].state = "done"

(***************************************************************************)
(* List sync: createNewList under failure                                  *)
(***************************************************************************)
attachCount(reqs) ==
  Cardinality({i \in 1..Len(reqs) : reqs[i].op = "attach"})
\* the create response carries a list identifier
createdWithId(o) ==
  /\ o.kind = "reply" /\ o.ok /\ o.json
  /\ "listId" \in DOMAIN o.body /\ o.body.listId # <<>>
MissingIdMessage == <<"Failed to get list ID from created list">>

\* C18: a create response that is a failure of any kind, or that carries no
\* list identifier, ends createNewList with an error message for that kind,
\* sends nothing, and leaves selection and catalog unchanged; an attach
\* request is sent only by the step that receives a create response with a
\* list identifier, and goes to that identifier.
C18_CreateFailureAborts ==
  [][/\ \A r \in 1..Len(pending), o \in SyncCreateOutcomes :
          createResponse(r, o) =>
            IF createdWithId(o)
              THEN /\ lastPendingNext.op = "attach"
                   /\ lastPendingNext.listId = o.body.listId
                   /\ attachCount(pending') = attachCount(pending) + 1
              ELSE /\ pending' = withoutAt(pending, r)
                   /\ UNCHANGED <<selectedResults, hubspotLists>>
                   /\ ~isAddingToList'
                   /\ o = Unreachable => error' = UnreachableMessage
                   /\ o = TimedOut => error' = TimeoutMessage
                   /\ (o.kind = "reply" /\ ~o.ok) =>
                        error' = IF o.json THEN o.body.detail
                                 ELSE <<"Failed to create list: ">>
                                        \o o.statusText
                   /\ (o.kind = "reply" /\ o.ok) =>
                        error' = MissingIdMessage
     /\ attachCount(pending') > attachCount(pending) =>
          \E r \in 1..Len(pending), o \in SyncCreateOutcomes :
            createResponse(r, o) /\ createdWithId(o)]_vars

\* C18 witness: the create response for list Q1 carried no identifier; the
\* error is shown, both contacts are still selected and no attach request
\* exists.
C18_Witness ==
  /\ error = MissingIdMessage
  /\ selectedResults = {"c1", "c2"}
  /\ newListName = <<"Q","1">>
  /\ ~isAddingToList
  /\ attachCount(pending) = 0

\* the messages createNewList records when its create step fails
CreateFailureMessages ==
  {syncErrorMessage(createThrown(c)) :
     c \in {x \in SyncCreateOutcomes : createThrown(x) # NoError}}

\* C19: the error recorded when the attach step of createNewList fails,
\* after a successful create, is none of the messages recorded for a failed
\* create.
C19_AttachFailureDistinct ==
  [][\A r \in 1..Len(pending), o \in SyncAttachOutcomes :
       (createAttachResponse(r, o) /\ ~attachOk(o))
         => error' \notin CreateFailureMessages]_vars

(***************************************************************************)
(* List sync: one operation at a time                                      *)
(***************************************************************************)
\* the requests on which a call of createNewList or addToExistingList is
\* suspended; createNewList also awaits the catalog refresh it starts
syncRequests ==
  {r \in 1..Len(pending) :
     \/ pending[r].op \in {"create", "attach"}
     \/ pending[r].op = "lists" /\ pending[r].after = "createNewList"}

\* C20: as the page is rendered, at most one call of createNewList or
\* addToExistingList is suspended on a request at any time, and
\* isAddingToList is true exactly while one is.
C20_OneSyncInFlight ==
  /\ Cardinality(syncRequests) <= 1
  /\ isAddingToList <=> syncRequests # {}

\* C20 witness: an attach to an existing list is in flight while the modal
\* still shows the chosen list; only isAddingToList disables the submit
\* button.
C20_Witness ==
  /\ isAddingToList /\ showAddModal
  /\ addMode = "existing" /\ selectedListId # <<>>
  /\ \E r \in 1..Len(pending) :
       pending[r].op = "attach" /\ pending[r].origin = "addToExistingList"
  /\ ~submitEnabled

(***************************************************************************)
(* The list catalog                                                        *)
(***************************************************************************)
\* C21: a failed response to loadHubSpotLists leaves the catalog empty and
\* listsError holding the message for the kind of failure, and changes
\* nothing of the search state.
C21_CatalogEmptyAfterFailure ==
  [][\A r \in 1..Len(pending), o \in PageListsOutcomes :
       (listsResponse(r, o) /\ listsThrown(o) # NoError)
         => /\ hubspotLists' = <<>>
            /\ listsError' # <<>>
            /\ UNCHANGED <<results, selectedResults, isLoading, error>>]_vars

(***************************************************************************)
(* Upload: removal                                                         *)
(***************************************************************************)
\* the uploads whose item has been removed
removedIds == DOMAIN xhrs \ idsOf(files)

\* C22: a progress, load or error callback of an upload whose item has been
\* removed leaves the collection as it is, and no step brings a removed
\* item back.
C22_RemovedItemStaysRemoved ==
  [][/\ \A fileId \in removedIds :
          (\/ \E lengthComputable \in BOOLEAN, loaded \in 0..XhrTotal :
                onProgress(fileId, lengthComputable, loaded)
           \/ \E reply \in HttpReplies, responseText \in ResponseTexts :
                onLoad(fileId, reply.status, responseText, reply.statusText)
           \/ onError(fileId))
          => files' = files
     /\ \A fileId \in removedIds : fileId \notin idsOf(files')]_vars

\* C22 witness: of two uploads the first item was removed and its request
\* has since completed; the second item is alone and untouched.
C22_Witness ==
  /\ Len(files) = 1 /\ Cardinality(DOMAIN xhrs) = 2
  /\ files[1].id = 2 /\ files[1].status = "uploading" /\ files[1].progress = 0
  /\ xhrs[1].state = "done" /\ xhrs[1].loaded = XhrTotal
  /\ xhrs[2].state = "sent" /\ xhrs[2].loaded = 0

(***************************************************************************)
(* List sync: addToExistingList                                            *)
(***************************************************************************)
NoListMessage == <<"Please select a list">>

\* C23: addToExistingList called while no list identifier is chosen records
\* an error message, sends nothing and leaves the selection unchanged.
C23_NoListFailsLocally ==
  [][(addToExistingList /\ selectedListId = <<>>)
       => /\ error' = NoListMessage
          /\ pending' = pending
          /\ UNCHANGED <<selectedResults, isAddingToList, hubspotLists>>]_vars

\* C23 witness: with two contacts selected and no list chosen the error is
\* shown and no attach request exists.
C23_Witness ==
  /\ error = NoListMessage
  /\ selectedListId = <<>>
  /\ selectedResults = {"c1", "c2"}
  /\ attachCount(pending) = 0
  /\ ~isAddingToList

\* C24: every attach request in flight carries at least one contact
\* identifier.
C24_AttachNeverEmpty ==
  \A r \in 1..Len(pending) :
    pending[r].op = "attach" => pending[r].contact_ids # {}

(***************************************************************************)
(* SpecExpiry: uploads, the catalog fetch and searches against a backend   *)
(* that may stay silent                                                    *)
(***************************************************************************)
\* AbortSignal.timeout(...) of a fetch fires: the fetch rejects with a
\* TimeoutError. loadHubSpotLists and handleSearch pass such a signal.
ExpireFetch(r) ==
  \/ NetLists(r, TimedOut)
  \/ NetSearch(r, TimedOut)

\* The XMLHttpRequest of uploadToBackend is created without a timeout and
\* without a 'timeout' listener: it has no expiry step, and its progress,
\* load and error events come only if the transport produces them.
NextExpiry ==
  \/ /\ \/ Len(submitted) < MaxSubmitted /\ handleFiles(<<CvDocx>>)
        \/ \E fileId \in DOMAIN xhrs, loaded \in 0..XhrTotal :
             onProgress(fileId, TRUE, loaded)
        \/ \E fileId \in DOMAIN xhrs :
             onLoad(fileId, 200, "ann.json", Str("OK"))
        \/ \E fileId \in DOMAIN xhrs : onError(fileId)
     /\ UNCHANGED <<termVars, pageVars, authVars>>
  \/ UiType(<<"a">>)
  \/ UiKey("Enter")
  \/ UiSearch
  \/ \E r \in 1..Len(pending), o \in FewSearchOutcomes : NetSearch(r, o)
  \/ \E r \in 1..Len(pending), o \in PageListsOutcomes : NetLists(r, o)
  \/ \E r \in 1..Len(pending) : ExpireFetch(r)

\* the timer of the oldest pending fetch is never postponed for ever
SpecExpiry ==
  Init /\ [][NextExpiry]_vars /\ WF_vars(ExpireFetch(1))

\* C25: again and again no item is uploading, no search is running and the
\* catalog is not loading: every started call settles, by its answer or by
\* its expiry.
C25_EveryCallSettles ==
  /\ []<>(\A i \in 1..Len(files) : files[i].status # "uploading")
  /\ []<>(~isLoading)
  /\ []<>(~isLoadingLists)
  /\ []<>(~isAddingToList)

(***************************************************************************)
(* Search: the outcome of a request                                        *)
(***************************************************************************)
\* the search response reports success with a JSON body
searchOk(o) == o.kind = "reply" /\ o.ok /\ o.json

\* C26: a successful search response replaces results by the response's
\* result list, or by the empty list when the response has none; no error
\* is shown afterwards and the page is no longer searching.
C26_SuccessReplacesResults ==
  [][\A r \in 1..Len(pending), o \in SearchOutcomes :
       (searchResponse(r, o) /\ searchOk(o))
         => /\ results' = IF "results" \in DOMAIN o.body
                            THEN o.body.results ELSE <<>>
            /\ error' = <<>>
            /\ ~isLoading']_vars

\* C26 witness: after a search for two terms the results are exactly the
\* one record of the response, with no error and no search running.
C26_Witness ==
  /\ results = ResultsB
  /\ Len(lastSearchTerms) = 2
  /\ error = <<>> /\ ~isLoading /\ hasSearched
  /\ \A r \in 1..Len(pending) : pending[r].op # "search"

SearchUnreachableMessage ==
  Str("Cannot connect to backend server at ") \o BACKEND_URL
    \o Str(". Please ensure the backend server is running.")
SearchTimeoutMessage == Str("Search request timed out. Please try again.")
SearchRejectedMessage(statusText) == Str("Search failed: ") \o statusText

\* C27: a failed search response (unreachable, timeout, non-success status,
\* unreadable body) empties results, stores a non-empty error message,
\* leaves selectedResults empty and ends the searching state; unreachable,
\* timeout and server-rejected store three different messages.
C27_FailureClearsResults ==
  [][\A r \in 1..Len(pending), o \in SearchOutcomes :
       (searchResponse(r, o) /\ ~searchOk(o))
         => /\ results' = <<>>
            /\ error' # <<>>
            /\ selectedResults' = {}
            /\ ~isLoading'
            /\ o = Unreachable => error' = SearchUnreachableMessage
            /\ o = TimedOut => error' = SearchTimeoutMessage
            /\ (o.kind = "reply" /\ ~o.ok)
                 => error' = SearchRejectedMessage(o.statusText)
            /\ o = UnreachableSafari
                 => error' \notin {SearchTimeoutMessage,
                                   SearchRejectedMessage(ServerError)}
            /\ SearchUnreachableMessage # SearchTimeoutMessage
            /\ SearchUnreachableMessage # SearchRejectedMessage(ServerError)
            /\ SearchTimeoutMessage # SearchRejectedMessage(ServerError)]_vars

\* C27 witness: a search that had results on screen has been repeated and
\* timed out: the timeout message is stored, nothing is listed or selected.
C27_Witness ==
  /\ error = SearchTimeoutMessage
  /\ results = <<>> /\ selectedResults = {}
  /\ hasSearched /\ ~isLoading /\ Len(lastSearchTerms) = 2

\* the search requests that have been sent and have not settled
searchRequests == {r \in 1..Len(pending) : pending[r].op = "search"}

\* C28: on the rendered page isLoading is true in exactly the states in
\* which a search request is outstanding, and at most one is outstanding:
\* the flag is set at commit and reset when that request settles.
C28_LoadingIffOutstanding ==
  /\ isLoading <=> searchRequests # {}
  /\ Cardinality(searchRequests) <= 1

\* C28 witness: a second search is running over the results of an earlier
\* one: isLoading is set and its one request is outstanding.
C28_Witness ==
  /\ isLoading /\ Cardinality(searchRequests) = 1
  /\ results # <<>> /\ Len(lastSearchTerms) = 2

\* C29: handleSelectAll sets selectedResults to the identifiers of the
\* current results when not all of them are selected and to the empty set
\* when all are; in every state of the rendered page the size comparison
\* it makes agrees with equality of the two sets.
C29_SelectAllExact ==
  /\ []((Cardinality(selectedResults) = Len(results))
          <=> (selectedResults = resultIds))
  /\ [][handleSelectAll
          => selectedResults' = IF selectedResults = resultIds
                                  THEN {} ELSE resultIds]_vars

\* C29 witness: two results are listed and both are selected, the state in
\* which the next handleSelectAll clears the selection.
C29_Witness ==
  /\ tableShown /\ Len(results) = 2
  /\ selectedResults = resultIds

\* C30: handleSelectResult(id) flips the membership of id in
\* selectedResults and changes the membership of no other identifier, and
\* applying it again with the same id gives back the selection it started
\* from.
C30_ToggleFlipsOne ==
  [][\A id \in Contacts :
       handleSelectResult(id)
         => /\ (id \in selectedResults') <=> (id \notin selectedResults)
            /\ \A other \in Contacts \ {id} :
                 (other \in selectedResults') <=> (other \in selectedResults)
            /\ newSelected(selectedResults', id) = selectedResults]_vars

\* C30 witness: with two results listed, handleSelectResult has put one
\* identifier into the selection while the other identifiers stay out.
C30_Witness ==
  /\ Len(results) = 2
  /\ selectedResults = {"c2"}

(***************************************************************************)
(* Term builder: addSearchTerm                                             *)
(***************************************************************************)
\* C31: addSearchTerm leaves the term set and the parent alone when the
\* input without its surrounding blanks is empty or equals an existing term
\* character for character; otherwise it appends that text, which has no
\* surrounding blank, after the existing terms and hands the new list to
\* the parent. A term that differs from an existing one in letter case
\* only is appended.
C31_AddTrimsAndAppends ==
  /\ []((/\ nAdded < MaxAdds
         /\ trim(currentInput) # <<>>
         /\ ~includes(childTerms, trim(currentInput)))
        => ENABLED (addSearchTerm /\ childTerms' # childTerms))
  /\ [][addSearchTerm =>
       LET t == trim(currentInput)
       IN  IF t = <<>> \/ \E i \in 1..Len(childTerms) : childTerms[i] = t
             THEN UNCHANGED <<childTerms, pageVars>>
             ELSE /\ t[1] # " " /\ t[Len(t)] # " "
                  /\ childTerms' = Append(childTerms, t)
                  /\ searchTerms' = childTerms']_vars

\* C31 witness: "A" was typed with a blank before it while "a" was a term,
\* and Enter appended "A" after "a" and emptied the input.
C31_Witness ==
  /\ childTerms = << <<"a">>, <<"A">> >>
  /\ searchTerms = childTerms
  /\ currentInput = <<>> /\ nAdded = 2 /\ nRemoved = 0

(***************************************************************************)
(* Upload: order of the collection                                         *)
(***************************************************************************)
\* the ids of a collection, in its order
idSeq(fs) == [i \in 1..Len(fs) |-> fs[i].id]

\* a second file that validateFile accepts, told from CvDocx by name and size
CvPdf == File(<<"c",".","p","d","f">>, 2048)
OrderFiles == {CvDocx, CvPdf, TxtFile}
OrderBatches == UNION {[1..n -> OrderFiles] : n \in 0..MaxBatch}

\* SpecOrder: batches of distinguishable files, up to MaxOrdered files over
\* a run, with the transport events and removals of the items
NextOrder ==
  /\ \/ \E fileList \in OrderBatches :
          /\ Len(submitted) + Len(fileList) <= MaxOrdered
          /\ handleFiles(fileList)
     \/ \E fileId \in DOMAIN xhrs : onProgress(fileId, TRUE, 1)
     \/ \E fileId \in DOMAIN xhrs, reply \in HttpReplies :
          onLoad(fileId, reply.status, "ann.json", reply.statusText)
     \/ \E fileId \in DOMAIN xhrs : onError(fileId)
     \/ \E i \in 1..Len(files) : removeFile(files[i].id)
  /\ UNCHANGED <<termVars, pageVars, authVars>>

SpecOrder == Init /\ [][NextOrder]_vars

\* the batch of a step: what the step added to the history of submissions
batchOf(before, after) == SubSeq(after, Len(before) + 1, Len(after))

\* C32: handleFiles leaves the existing items where they are and appends one
\* item per accepted file of the batch, in the order of the batch; every
\* step (progress, load, error, removal, submission) keeps the items that
\* remain in the order they had.
C32_SubmissionOrderKept ==
  [][/\ LET fileList == batchOf(submitted, submitted')
        IN  handleFiles(fileList) =>
              LET valid == SelectSeq(fileList, validateFile)
              IN  /\ Len(files') = Len(files) + Len(valid)
                  /\ SubSeq(files', 1, Len(files)) = files
                  /\ \A i \in 1..Len(valid) :
                       files'[Len(files) + i].file = valid[i]
     /\ SelectSeq(idSeq(files), LAMBDA id : id \in idsOf(files'))
          = SelectSeq(idSeq(files'), LAMBDA id : id \in idsOf(files))]_vars

\* C32 witness: the batch <<c.pdf, a.Docx>> gave items 1 and 2 in that order,
\* a later batch gave item 3, item 2 was removed and item 1 then completed:
\* the two items that remain are still in submission order.
C32_Witness ==
  /\ submitted = <<CvPdf, CvDocx, CvDocx>>
  /\ idSeq(files) = <<1, 3>>
  /\ files[1].file = CvPdf /\ files[2].file = CvDocx
  /\ files[1].status = "success" /\ files[2].status = "uploading"
  /\ removedAny

(***************************************************************************)
(* Upload: what an item holds in each status                               *)
(***************************************************************************)
ParseFailedMessage == Str("Failed to parse server response")
NetworkErrorMessage == Str("Network error occurred")
UploadRejectedMessage(statusText) == Str("Upload failed: ") \o statusText

\* the fields an item may hold in its status
itemConsistent(f) ==
  /\ f.status = "uploading" =>
       "parsedData" \notin DOMAIN f /\ "errorMessage" \notin DOMAIN f
  /\ f.status = "success" =>
       /\ f.progress = 100
       /\ "parsedData" \in DOMAIN f /\ "errorMessage" \notin DOMAIN f
  /\ f.status = "error" =>
       /\ "errorMessage" \in DOMAIN f /\ f.errorMessage # <<>>
       /\ "parsedData" \notin DOMAIN f

\* C33: every item is consistent with its status: a successful item has
\* progress 100, the parsed response body and no error message; a failed
\* item has an error message and no parsed result. A load with status 200
\* and a parsable body stores exactly the parsed body; an unparsable body,
\* another status and a network error store three different messages; and
\* the callback that records a failure changes the one item of its upload.
C33_ItemMatchesStatus ==
  /\ [](\A i \in 1..Len(files) : itemConsistent(files[i]))
  /\ [][\A fileId \in idsOf(files) :
          /\ \A reply \in HttpReplies, responseText \in ResponseTexts :
               onLoad(fileId, reply.status, responseText, reply.statusText)
                 => LET f == itemOf(files', fileId)
                    IN  /\ onlyItemChanged(fileId)
                        /\ IF reply.status # 200
                             THEN /\ f.status = "error"
                                  /\ f.errorMessage
                                       = UploadRejectedMessage(reply.statusText)
                           ELSE IF ~JSONparses(responseText)
                             THEN /\ f.status = "error"
                                  /\ f.errorMessage = ParseFailedMessage
                           ELSE /\ f.status = "success"
                                /\ f.parsedData = JSONparse(responseText)
                        /\ ParseFailedMessage
                             # UploadRejectedMessage(reply.statusText)
                        /\ NetworkErrorMessage
                             # UploadRejectedMessage(reply.statusText)
          /\ onError(fileId)
               => /\ onlyItemChanged(fileId)
                  /\ itemOf(files', fileId).status = "error"
                  /\ itemOf(files', fileId).errorMessage = NetworkErrorMessage
                  /\ NetworkErrorMessage # ParseFailedMessage]_vars

\* C33 witness: of two uploads the first answered 200 with a body that is
\* not JSON and the second was parsed: one failed item with the parse
\* message and no result, one successful item with its result.
C33_Witness ==
  /\ Len(files) = 2
  /\ files[1].status = "error" /\ files[1].errorMessage = ParseFailedMessage
  /\ "parsedData" \notin DOMAIN files[1]
  /\ files[2].status = "success" /\ files[2].parsedData = BobDoc

(***************************************************************************)
(* Server-rejected responses                                               *)
(***************************************************************************)
\* the response has a non-success status
rejected(o) == o.kind = "reply" /\ ~o.ok
\* the message asked for: the detail of the response if it carries one, and
\* otherwise a text that holds the status text
showsRejection(message, o) ==
  IF o.json /\ orElse(o.body, "detail", <<>>) # <<>>
    THEN message = o.body.detail
    ELSE \A i \in 1..Len(o.statusText) : mentions(message, o.statusText[i])

\* C34: when the response to a search, catalog, create or attach request
\* has a non-success status, the error message stored is the detail of the
\* response if it carries one and otherwise holds the status text.
C34_DetailElseStatusText ==
  [][\A r \in 1..Len(pending),
        o \in SearchOutcomes \cup ListsOutcomes
                \cup SyncCreateOutcomes \cup SyncAttachOutcomes :
       rejected(o) =>
         /\ searchResponse(r, o) => showsRejection(error', o)
         /\ listsResponse(r, o) => showsRejection(listsError', o)
         /\ createResponse(r, o) => showsRejection(error', o)
         /\ createAttachResponse(r, o) => showsRejection(error', o)
         /\ existingAttachResponse(r, o) => showsRejection(error', o)]_vars

(***************************************************************************)
(* SearchPage.highlightText                                                *)
(***************************************************************************)
\* the characters that term.replace(/[.*+?^${}()|[\]\\]/g, '\\$&') escapes
RegExpSpecials == {".", "*", "+", "?", "^", "$", "{", "}", "(", ")", "|",
                   "[", "]", "\\"}

\* highlightText line 343: every special character gets a backslash
RECURSIVE escapeTerm(_)
escapeTerm(term) ==
  IF term = <<>> THEN <<>>
  ELSE (IF Head(term) \in RegExpSpecials THEN <<"\\", Head(term)>>
                                         ELSE <<Head(term)>>)
         \o escapeTerm(Tail(term))

\* new RegExp(source): an escaped character and an ordinary character stand
\* for themselves, a bare '.' stands for any character
RECURSIVE atomsOf(_)
atomsOf(source) ==
  IF source = <<>> THEN <<>>
  ELSE IF Head(source) = "\\" /\ Len(source) >= 2
    THEN <<[any |-> FALSE, c |-> source[2]]>>
           \o atomsOf(SubSeq(source, 3, Len(source)))
  ELSE <<[any |-> Head(source) = ".", c |-> Head(source)]>>
         \o atomsOf(Tail(source))

\* the pattern matches text at position q (flag i: letter case is ignored)
matchesAt(text, q, atoms) ==
  /\ q + Len(atoms) - 1 <= Len(text)
  /\ \A k \in 1..Len(atoms) :
       \/ atoms[k].any
       \/ toLowerCaseChar(atoms[k].c) = toLowerCaseChar(text[q + k - 1])

\* (t1|t2|...) tried at position q: the first alternative that matches
\* decides; the position after the match, or 0 when none matches
alternationEnd(text, q, alts) ==
  IF \E j \in 1..Len(alts) : matchesAt(text, q, alts[j])
    THEN LET j == CHOOSE j \in 1..Len(alts) :
                    /\ matchesAt(text, q, alts[j])
                    /\ \A h \in 1..(j - 1) : ~matchesAt(text, q, alts[h])
         IN  q + Len(alts[j])
    ELSE 0

\* text.split(regex) with one capture group: the pieces between the
\* matches and the matches themselves, from split point p, scanning at q
RECURSIVE splitFrom(_, _, _, _)
splitFrom(text, alts, p, q) ==
  IF q > Len(text) THEN <<SubSeq(text, p, Len(text))>>
  ELSE LET e == alternationEnd(text, q, alts)
       IN  IF e = 0 \/ e = p
             THEN splitFrom(text, alts, p, q + 1)
             ELSE <<SubSeq(text, p, q - 1), SubSeq(text, q, e - 1)>>
                    \o splitFrom(text, alts, e, e)

\* new RegExp(term, 'gi').test(part)
regexTest(atoms, part) == \E q \in 1..Len(part) : matchesAt(part, q, atoms)

\* highlightText(text, searchTerms): the parts rendered, each with or
\* without <mark>
highlightText(text, terms) ==
  IF Len(terms) = 0 THEN <<[part |-> text, mark |-> FALSE]>>
  ELSE LET escapedTerms == [i \in 1..Len(terms) |-> escapeTerm(terms[i])]
           alts == [i \in 1..Len(terms) |-> atomsOf(escapedTerms[i])]
           parts == splitFrom(text, alts, 1, 1)
       IN  [i \in 1..Len(parts) |->
              [part |-> parts[i],
               mark |-> \E j \in 1..Len(alts) : regexTest(alts[j], parts[i])]]

\* candidate.name || 'N/A'
nameShown(candidate) == orElse(candidate, "name", <<"N", "/", "A">>)

\* the candidates and term lists the highlighting is checked on
Named(contactId, name) == [contact_id |-> contactId, name |-> name]
HighlightNames ==
  {<<"a","b","c">>, <<"a","a","a">>, <<"x","A","b">>, <<"a","x">>,
   <<"a",".">>, <<>>}
HighlightOutcomes ==
  {SearchOk(<<Named("c1", name)>>) : name \in HighlightNames}
HighlightTermLists ==
  {<< <<"a","b">>, <<"b","c">> >>, << <<"a","a">> >>,
   << <<"a">>, <<"a","b">> >>, << <<"B">> >>, << <<"a",".">> >>}

\* SpecHighlight: searches whose results are rendered with highlighting
NextHighlight ==
  \/ \E terms \in HighlightTermLists : OpsSearch(terms, "or")
  \/ \E r \in 1..Len(pending), o \in HighlightOutcomes : NetSearch(r, o)
  \/ \E r \in 1..Len(pending), o \in PageListsOutcomes : NetLists(r, o)

SpecHighlight == Init /\ [][NextHighlight]_vars

\* the positions of the text rendered inside <mark>
RECURSIVE lengthBefore(_, _)
lengthBefore(nodes, i) ==
  IF i <= 1 THEN 0 ELSE lengthBefore(nodes, i - 1) + Len(nodes[i - 1].part)
markedChars(nodes) ==
  UNION {{lengthBefore(nodes, i) + k : k \in 1..Len(nodes[i].part)} :
           i \in {n \in 1..Len(nodes) : nodes[n].mark}}

\* the positions that lie inside an occurrence of a term, letter case
\* ignored
occurrenceChars(text, terms) ==
  {p \in 1..Len(text) :
     \E j \in 1..Len(terms), q \in 1..Len(text) :
       /\ q + Len(terms[j]) - 1 <= Len(text)
       /\ toLowerCase(SubSeq(text, q, q + Len(terms[j]) - 1))
            = toLowerCase(terms[j])
       /\ q <= p /\ p <= q + Len(terms[j]) - 1}

\* C35: for every listed candidate, highlightText(name, lastSearchTerms)
\* marks exactly the characters of the name that lie inside an occurrence
\* of a term, the union of the spans where occurrences overlap.
C35_HighlightMarksUnion ==
  \A i \in 1..Len(results) :
    markedChars(highlightText(nameShown(results[i]), lastSearchTerms))
      = occurrenceChars(nameShown(results[i]), lastSearchTerms)

(***************************************************************************)
(* SpecAuth: login, logout and page reloads, with the term builder as the  *)
(* in-memory state that a reload loses                                     *)
(***************************************************************************)
Usernames == {Str("Timo"), Str("timo"), Str("")}
Passwords == {Str("Timo@123"), Str("timo@123")}

\* a page reload: every component is constructed again and the provider
\* renders with its initial state; local storage is kept
Reload ==
  /\ files' = <<>> /\ xhrs' = <<>> /\ nextId' = 1
  /\ submitted' = <<>> /\ removedAny' = FALSE
  /\ childTerms' = <<>> /\ currentInput' = <<>>
  /\ nAdded' = 0 /\ nRemoved' = 0
  /\ searchTerms' = <<>> /\ searchMode' = "or" /\ results' = <<>>
  /\ selectedResults' = {} /\ isLoading' = FALSE /\ error' = <<>>
  /\ hasSearched' = FALSE /\ lastSearchTerms' = <<>>
  /\ hubspotLists' = <<>> /\ isLoadingLists' = TRUE /\ listsError' = <<>>
  /\ showAddModal' = FALSE /\ addMode' = "create" /\ newListName' = <<>>
  /\ selectedListId' = <<>> /\ isAddingToList' = FALSE
  /\ addSuccess' = <<>>
  /\ pending' = <<listsRequest("none")>>
  /\ isAuthenticated' = FALSE
  /\ user' = Null
  /\ loginReturn' = <<>>
  /\ mountPending' = TRUE
  /\ UNCHANGED storedAuth

\* the handlers are reachable once the mount effect has run
AuthLogin(username, password) ==
  /\ ~mountPending /\ login(username, password)
  /\ UNCHANGED <<uploadVars, termVars, pageVars>>
AuthLogout ==
  ~mountPending /\ logout /\ UNCHANGED <<uploadVars, termVars, pageVars>>
AuthMount == mountEffect /\ UNCHANGED <<uploadVars, termVars, pageVars>>

NextAuth ==
  \/ \E username \in Usernames, password \in Passwords :
       AuthLogin(username, password)
  \/ AuthLogout
  \/ Reload
  \/ AuthMount
  \/ \E value \in FewTermInputs : ~mountPending /\ UiType(value)
  \/ \E key \in {"Enter", "Backspace"} : ~mountPending /\ UiKey(key)
  \/ \E r \in 1..Len(pending), o \in PageListsOutcomes :
       ~mountPending /\ NetLists(r, o)

SpecAuth == Init /\ [][NextAuth]_vars

\* C36: once the mount effect has run, isAuthenticated holds exactly when
\* local storage holds an "auth" entry. login with the right credentials
\* sets both and returns true; with other credentials it returns false and
\* changes neither; logout clears both; the mount effect after a reload
\* restores the authenticated state and the user from the stored entry.
C36_AuthMatchesStorage ==
  /\ [](~mountPending => (isAuthenticated <=> storedAuth # Null))
  /\ [][/\ \A username \in Usernames, password \in Passwords :
            login(username, password) =>
              IF username = <<"Timo">> /\ password = <<"Timo@123">>
                THEN /\ isAuthenticated' /\ storedAuth' # Null
                     /\ user' = [username |-> username]
                     /\ loginReturn' = <<TRUE>>
                ELSE /\ loginReturn' = <<FALSE>>
                     /\ UNCHANGED <<isAuthenticated, user, storedAuth>>
        /\ logout => ~isAuthenticated' /\ storedAuth' = Null
        /\ mountEffect =>
             /\ isAuthenticated' <=> storedAuth # Null
             /\ isAuthenticated' => user' = [username |-> <<"Timo">>]
        /\ storedAuth' # storedAuth =>
             \/ logout
             \/ \E username \in Usernames, password \in Passwords :
                  login(username, password)]_vars

\* C36 witness: after a login and a reload the mount effect has restored
\* the session: authenticated with the stored user, no login call made by
\* this page, and the builder empty again.
C36_Witness ==
  /\ isAuthenticated /\ storedAuth # Null /\ ~mountPending
  /\ user = [username |-> <<"Timo">>]
  /\ loginReturn = <<>>
  /\ childTerms = <<>>

(***************************************************************************)
(* List sync: a list created whose attach failed                           *)
(***************************************************************************)
AttachRejectedMessage ==
  Str("Failed to add contacts to list: ") \o ServerError

\* the attach step of createNewList has failed and the modal still holds
\* the name that was sent
attachFailedAfterCreate ==
  /\ error = AttachRejectedMessage
  /\ ~isAddingToList
  /\ trim(newListName) # <<>>

\* C37: a failed attach response of createNewList, which follows a create
\* request that succeeded, leaves the catalog and the list name as they
\* were and issues no catalog fetch; a later createNewList with that name,
\* not found in the catalog, sends another create request for it.
C37_FailedAttachLeavesCatalog ==
  [][/\ \A r \in 1..Len(pending), o \in SyncAttachOutcomes :
          (createAttachResponse(r, o) /\ ~attachOk(o))
            => /\ UNCHANGED <<hubspotLists, isLoadingLists, listsError,
                              newListName, selectedResults, showAddModal>>
               /\ pending' = withoutAt(pending, r)
     /\ (/\ createNewList
         /\ attachFailedAfterCreate
         /\ ~nameExists(hubspotLists, trim(newListName))
         /\ Len(pending) < MaxInFlight)
          => /\ Len(pending') = Len(pending) + 1
             /\ lastPendingNext.op = "create"
             /\ lastPendingNext.name = trim(newListName)]_vars

\* C37 witness: the list was created, its attach request was rejected, and
\* the catalog, loaded, holds no list of the name still in the modal.
C37_Witness ==
  /\ attachFailedAfterCreate
  /\ ~isLoadingLists /\ hubspotLists = <<EngList>>
  /\ ~nameExists(hubspotLists, trim(newListName))
  /\ selectedResults # {}
  /\ \A r \in 1..Len(pending) : pending[r].op # "lists"

(***************************************************************************)
(* Catalog fetches that overlap                                            *)
(***************************************************************************)
\* the catalog before and after the list "Q1" was created
NewList == HubSpotList(Str("L9"), <<"Q","1">>)
RefreshListsOutcomes == {ListsOk(<<EngList>>), ListsOk(<<EngList, NewList>>)}

\* SpecRefresh: one search, one selection and one create-and-attach on the
\* rendered page, while the catalog fetch of the mount may still be pending
NextRefresh ==
  \/ UiType(<<"a">>)
  \/ UiKey("Enter")
  \/ UiSearch
  \/ \E i \in 1..Len(results) : UiToggle(i)
  \/ UiOpenModal
  \/ UiCloseModal
  \/ UiListName(<<"Q","1">>)
  \/ UiSubmit
  \/ \E r \in 1..Len(pending) : NetSearch(r, SearchOk(ResultsAB))
  \/ \E r \in 1..Len(pending) : NetCreate(r, CreateOk(Str("L9")))
  \/ \E r \in 1..Len(pending) : NetCreateAttach(r, AttachOk(1))
  \/ \E r \in 1..Len(pending), o \in RefreshListsOutcomes : NetLists(r, o)

SpecRefresh == Init /\ [][NextRefresh]_vars

\* the catalog fetches that have not settled
listsRequests == {r \in 1..Len(pending) : pending[r].op = "lists"}
\* the refresh that follows a successful create has been issued and has
\* settled
refreshSettled ==
  /\ addSuccess # <<>> /\ addSuccess[1] = "Successfully created list \""
  /\ \A r \in listsRequests : pending[r].after # "createNewList"

\* C38: isLoadingLists is true as long as a catalog fetch is outstanding,
\* and when the fetch of the mount and the refresh after a create overlap
\* the catalog ends as the response to the refresh, the fetch issued last:
\* the response to the mount's fetch, arriving after the refresh has
\* settled, does not replace it.
C38_LastFetchWins ==
  /\ [](listsRequests # {} => isLoadingLists)
  /\ [][\A r \in 1..Len(pending), o \in RefreshListsOutcomes :
          (listsResponse(r, o) /\ pending[r].after = "none" /\ refreshSettled)
            => hubspotLists' = hubspotLists]_vars

(***************************************************************************)
(* LastQuery                                                               *)
(***************************************************************************)
\* C39: addSearchTerm, removeSearchTerm and clearAllTerms change neither
\* lastSearchTerms nor results nor selectedResults; lastSearchTerms changes
\* only in a step that commits a non-empty term list, to that list, and
\* sends its search request.
C39_EditsKeepLastQuery ==
  [][/\ (\/ addSearchTerm
         \/ clearAllTerms
         \/ \E index \in 0..(Len(childTerms) - 1) : removeSearchTerm(index))
          => UNCHANGED <<lastSearchTerms, results, selectedResults>>
     /\ lastSearchTerms' # lastSearchTerms
          => /\ Len(childTerms) > 0
             /\ lastSearchTerms' = childTerms
             /\ UNCHANGED childTerms
             /\ Len(pending') = Len(pending) + 1
             /\ lastPendingNext.op = "search"]_vars

\* C39 witness: after a search for "a" a second term was added and a
\* result selected; LastQuery still holds "a" alone and the results and
\* the selection are those of that search.
C39_Witness ==
  /\ hasSearched /\ ~isLoading
  /\ lastSearchTerms = << <<"a">> >>
  /\ childTerms = << <<"a">>, <<"b">> >>
  /\ results = ResultsAB /\ selectedResults = {"c1"}

====
